---------------------------- MODULE Spec2Model ----------------------------
(***************************************************************************)
(* A model of the Daggerheart MCP server: the tool registry and execution  *)
(* engine of src/tools.py (ToolRegistry, BaseTool) and the transport entry *)
(* points of src/server.py (POST /execute, the /ws endpoint and            *)
(* MCPServer._process_message).                                            *)
(*                                                                         *)
(* The server runs on one asyncio event loop: code between two awaits is   *)
(* one atomic step.  execute_tool has a single suspension point, the await *)
(* of the handler (tool.execute, possibly under asyncio.wait_for), so an   *)
(* invocation is two steps: everything up to the start of the handler, and *)
(* everything from the handler's end to the return or raise.               *)
(***************************************************************************)
EXTENDS Integers, Sequences, FiniteSets, TLC

\* Number of execute_tool calls (direct, or through a transport request)
\* a behaviour may contain.
MaxInv == 3

\* Number of execute_tool calls in the specifications about descriptors
\* and about the transport.
MaxCalls == 2

Inv == 1 .. MaxInv

(***************************************************************************)
(* Values.  Python's Optional[T] is a sequence of length 0 (None) or 1.    *)
(***************************************************************************)
NoneV == << >>

Some(x) == << x >>

\* Python truthiness of an Optional[float]: None and 0.0 are both falsy.
Truthy(opt) == opt # NoneV /\ opt[1] # 0

(***************************************************************************)
(* Argument values are Python objects: an int, a list or a tuple of ints.  *)
(* json.dumps writes an int as a number and writes both a list and a       *)
(* tuple as an array.                                                      *)
(***************************************************************************)
PyInt(n) == << "int", << n >> >>

PyList(s) == << "list", s >>

PyTuple(s) == << "tuple", s >>

json_dumps(v) ==
    IF v[1] = "int" THEN << "number", v[2] >> ELSE << "array", v[2] >>

\* Argument names in Python's string order (used by sorted()).
KeysSorted == << "operation", "path", "query", "x" >>

KeyRank(k) == CHOOSE n \in 1 .. Len(KeysSorted) : KeysSorted[n] = k

\* A kwargs dict is a sequence of <<key, value>> items in insertion order.
Keys(kwargs) == { kwargs[n][1] : n \in 1 .. Len(kwargs) }

\* The argument dicts callers pass: {}, {query: 1, x: 1}, {x: 1, query: 1}
\* and {query: 2}.
ArgDicts ==
    { << >>,
      << << "query", PyInt(1) >>, << "x", PyInt(1) >> >>,
      << << "x", PyInt(1) >>, << "query", PyInt(1) >> >>,
      << << "query", PyInt(2) >> >> }

\* What a handler may return, and the faults it may raise: an ordinary
\* Exception, or asyncio.TimeoutError raised by the handler's own code.
Values == { "r1", "r2" }

Faults == { "Exception", "asyncio.TimeoutError" }

(***************************************************************************)
(* ToolMetadata and BaseTool.  impl names the handler object.              *)
(***************************************************************************)
ToolMetadata(name, required, timeout, cache_enabled) ==
    [ name |-> name, version |-> "1.0.0", required |-> required,
      timeout |-> timeout, retry_attempts |-> 3,
      cache_enabled |-> cache_enabled ]

BaseTool(metadata, impl) == [ metadata |-> metadata, impl |-> impl ]

\* The server's default tool search_web (server.py, _register_default_tools):
\* a required field, a timeout, caching on by default.
SearchWebTool ==
    BaseTool(ToolMetadata("search_web", << "query" >>, Some(30), TRUE),
             "SearchWebTool")

\* The tests' TestTool shape: nothing required, no timeout, caching on.
EchoTool == BaseTool(ToolMetadata("echo", << >>, NoneV, TRUE), "echo_a")

\* Another tool under the same name and version, with a required field.
EchoToolB ==
    BaseTool(ToolMetadata("echo", << "query" >>, Some(30), TRUE), "echo_b")

\* The echo tool published again as version 2.0.0.
EchoToolV2 ==
    BaseTool([ EchoTool.metadata EXCEPT !.version = "2.0.0" ], "echo_a")

\* Another tool under the echo name and version, with caching off.
EchoToolNoCache ==
    BaseTool(ToolMetadata("echo", << >>, NoneV, FALSE), "echo_c")

\* A tool constructed with timeout=0 and cache_enabled=False.
RawTool == BaseTool(ToolMetadata("raw", << >>, Some(0), FALSE), "raw")

\* The server's other default tools (server.py, _register_default_tools).
GetCurrentTimeTool ==
    BaseTool(ToolMetadata("get_current_time", << >>, NoneV, TRUE),
             "GetCurrentTimeTool")

FileOperationsTool ==
    BaseTool(ToolMetadata("file_operations", << "operation", "path" >>,
                          Some(10), TRUE),
             "FileOperationsTool")

DefaultTools == { GetCurrentTimeTool, SearchWebTool, FileOperationsTool }

Tools ==
    DefaultTools
    \cup { EchoTool, EchoToolB, EchoToolV2, EchoToolNoCache, RawTool }

\* The names callers use; no tool is ever registered as "ghost".
Names == { t.metadata.name : t \in Tools } \cup { "ghost" }

\* The WebSocket objects of the /ws endpoint.
Sockets == { "ws1" }

VARIABLES
    tools,      \* ToolRegistry._tools: name -> Optional[BaseTool] (None: no key)
    cache,      \* ToolRegistry._cache: key -> Optional[[value, by]] (None: no
                \* key); by is the invocation whose put stored the value
    inv,        \* the execute_tool calls, by arrival number
    started,    \* how many execute_tool calls have arrived
    reqs,       \* the transport requests (POST /execute bodies and /ws
                \* frames), by arrival number, with what was answered
    socks,      \* each WebSocket's place in websocket_endpoint
    active_connections, \* ConnectionManager.active_connections
    log,        \* history of the registry's callers: regd is, per name, the
                \* tool of the latest register call not followed by an
                \* unregister of the name (None otherwise); last is the
                \* latest register/unregister call with the registry it
                \* found
    key_order,  \* the keys of ToolRegistry._tools in the dict's insertion
                \* order
    lists,      \* the lists list_tools has returned, oldest first
    fp,         \* two get_cache_key calls: their tools, kwargs and results
    config,     \* an MCPConfig construction: its arguments and the object
    bcast       \* the locals of a ConnectionManager.broadcast call

vars ==
    << tools, cache, inv, started, reqs, socks, active_connections, log,
       key_order, lists, fp, config, bcast >>

\* What only the operations outside execute_tool, the registry's writers
\* and the request handlers touch.
pvars == << lists, fp, config, bcast >>

\* The transport's part of the state.
tvars == << reqs, socks, active_connections >>

(***************************************************************************)
(* BaseTool.validate_input: the first required field missing from kwargs,  *)
(* as an Optional.                                                         *)
(***************************************************************************)
\* A validation that accepts everything.
MissingField_AcceptsAll(tool, kwargs) == NoneV

MissingField(tool, kwargs) ==
    LET req == tool.metadata.required
        miss == { n \in 1 .. Len(req) : req[n] \notin Keys(kwargs) }
    IN  IF miss = {} THEN NoneV
        ELSE Some(req[CHOOSE n \in miss : \A m \in miss : n <= m])

\* sorted(kwargs.items()): the items in ascending key order.
RECURSIVE SortedItems(_)
SortedItems(kwargs) ==
    IF kwargs = << >> THEN << >>
    ELSE LET n == CHOOSE a \in 1 .. Len(kwargs) :
                    \A b \in 1 .. Len(kwargs) :
                        KeyRank(kwargs[a][1]) <= KeyRank(kwargs[b][1])
             rest == [ m \in 1 .. Len(kwargs) - 1 |->
                         IF m < n THEN kwargs[m] ELSE kwargs[m + 1] ]
         IN  << kwargs[n] >> \o SortedItems(rest)

(***************************************************************************)
(* BaseTool.get_cache_key: json.dumps of {tool, version, params} with      *)
(* sort_keys, then md5.  The digest is taken to be collision-free, so the  *)
(* key is the canonical text: the fields in the order params, tool,        *)
(* version, each item of params as the array [key, json of the value].     *)
(***************************************************************************)
\* The JSON text of the items, in the order given.
DumpItems(items) ==
    [ n \in 1 .. Len(items) |-> << items[n][1], json_dumps(items[n][2]) >> ]

\* A key made of the items in the caller's insertion order.
get_cache_key_Unsorted(tool, kwargs) ==
    << DumpItems(kwargs), tool.metadata.name, tool.metadata.version >>

get_cache_key(tool, kwargs) ==
    << DumpItems(SortedItems(kwargs)), tool.metadata.name,
       tool.metadata.version >>

(***************************************************************************)
(* Outcomes of execute_tool: a returned value or a raised exception.       *)
(***************************************************************************)
\* A return of one fixed value.
Return_Constant(v) == [ type |-> "return", value |-> "r1", msg |-> << >> ]

Return(v) == [ type |-> "return", value |-> v, msg |-> << >> ]

Raise(type, msg) == [ type |-> type, value |-> "", msg |-> msg ]

Pending == [ type |-> "pending", value |-> "", msg |-> << >> ]

\* An execute_tool call.  pc: idle (not arrived), running (suspended in the
\* await of the handler), done.  tool and key are the locals tool and
\* cache_key (None while unset).  History fields: runs counts the handler's
\* executions, read and wrote say whether the call consulted and stored to
\* the cache, how and fault say how the await ended, cleared says that
\* clear_cache ran after the call returned.
IdleInv ==
    [ pc |-> "idle", name |-> "", kwargs |-> << >>, tool |-> NoneV,
      key |-> NoneV, runs |-> 0, read |-> FALSE, wrote |-> FALSE,
      how |-> "", fault |-> "", out |-> Pending, cleared |-> FALSE ]

CacheKeys == { get_cache_key(t, a) : t \in Tools, a \in ArgDicts }

\* A socket before its connection: st is its place in websocket_endpoint,
\* cur the request it is answering (0: none), gone says a send to it failed.
NewSocket == [ st |-> "unconnected", cur |-> 0, gone |-> FALSE ]

\* ConnectionManager.__init__, and no request yet.
InitTransport ==
    /\ reqs = << >>
    /\ socks = [ w \in Sockets |-> NewSocket ]
    /\ active_connections = << >>

\* No register or unregister call yet.
InitLog ==
    log = [ regd |-> [ n \in Names |-> NoneV ],
            last |-> [ op |-> "none", name |-> "", tool |-> NoneV,
                       before |-> [ n \in Names |-> NoneV ] ] ]

\* No get_cache_key call made outside execute_tool.
NoKeyCalls ==
    [ a |-> [ tool |-> EchoTool, kwargs |-> << >> ],
      b |-> [ tool |-> EchoTool, kwargs |-> << >> ],
      ka |-> NoneV, kb |-> NoneV ]

\* MCPConfig() called with no keyword argument (None: not passed).
NoArgs ==
    [ host |-> NoneV, port |-> NoneV, debug |-> NoneV,
      tool_retry_attempts |-> NoneV, cache_ttl |-> NoneV,
      cache_max_size |-> NoneV ]

\* No MCP_* variable set in the environment.
NoEnv == [ MCP_HOST |-> NoneV, MCP_PORT |-> NoneV, MCP_DEBUG |-> NoneV ]

\* No MCPConfig constructed: given holds the keyword arguments a caller
\* passes, env the environment, obj the constructed object, via the
\* constructor used, errors what validate returned.
NoConfig ==
    [ given |-> NoArgs, env |-> NoEnv, obj |-> NoneV, via |-> "",
      errors |-> NoneV ]

\* No broadcast call.  pc is its place (idle, sending: suspended in
\* send_text, done), connection the loop variable, i the position the
\* list iterator reads next, disconnected its local list.  History: sent
\* lists the connections it called send_text on, stayed the connections
\* that have been in active_connections ever since it was called.
NoBroadcast ==
    [ pc |-> "idle", connection |-> "", i |-> 1, sent |-> << >>,
      disconnected |-> << >>, stayed |-> {} ]

\* ToolRegistry.__init__: no tools, empty cache.
InitRegistry ==
    /\ tools = [ n \in Names |-> NoneV ]
    /\ cache = [ k \in CacheKeys |-> NoneV ]
    /\ inv = [ i \in Inv |-> IdleInv ]
    /\ started = 0
    /\ InitLog
    /\ key_order = << >>
    /\ lists = << >>

Init ==
    /\ InitRegistry
    /\ InitTransport
    /\ fp = NoKeyCalls
    /\ config = NoConfig
    /\ bcast = NoBroadcast

(***************************************************************************)
(* ToolRegistry                                                            *)
(***************************************************************************)
\* A lookup that falls back to a default tool.
get_tool_Fallback(tool_name) ==
    IF tools[tool_name] = NoneV THEN Some(EchoTool) ELSE tools[tool_name]

get_tool(tool_name) == tools[tool_name]

\* list(self._tools.keys()): the keys, copied in the dict's order.
list_tools == key_order

\* The names a list holds.
Range(s) == { s[n] : n \in 1 .. Len(s) }

\* A metadata lookup that answers from one fixed tool.
get_tool_metadata_Fixed(tool_name) ==
    IF get_tool(tool_name) = NoneV THEN NoneV ELSE Some(EchoTool.metadata)

get_tool_metadata(tool_name) ==
    IF get_tool(tool_name) = NoneV
    THEN NoneV
    ELSE Some(get_tool(tool_name)[1].metadata)

\* A register that rebuilds the dict around the new entry.
Register_Clobbers(tool) ==
    /\ tools' = [ n \in Names |->
                    IF n = tool.metadata.name THEN Some(tool) ELSE NoneV ]
    /\ UNCHANGED << cache, inv, started >>

\* A register that updates the metadata of an entry and keeps its handler.
Register_KeepsHandler(tool) ==
    /\ tools' = [ tools EXCEPT ![tool.metadata.name] =
                    IF @ = NoneV THEN Some(tool)
                    ELSE Some(BaseTool(tool.metadata, @[1].impl)) ]
    /\ UNCHANGED << cache, inv, started >>

\* A register that keeps an entry already present (first write wins).
Register_KeepsFirst(tool) ==
    /\ tools' = [ tools EXCEPT ![tool.metadata.name] =
                    IF @ = NoneV THEN Some(tool) ELSE @ ]
    /\ UNCHANGED << cache, inv, started >>

\* An unregister that empties the registry.
Unregister_DropsAll(tool_name) ==
    /\ tools' = [ n \in Names |-> NoneV ]
    /\ UNCHANGED << cache, inv, started >>

\* A register that drops the cached results of the name it registers.
Register_Invalidates(tool) ==
    /\ tools' = [ tools EXCEPT ![tool.metadata.name] = Some(tool) ]
    /\ cache' = [ k \in DOMAIN cache |->
                    IF k[2] = tool.metadata.name THEN NoneV ELSE cache[k] ]
    /\ UNCHANGED << inv, started >>

Register(tool) ==
    /\ tools' = [ tools EXCEPT ![tool.metadata.name] = Some(tool) ]
    /\ UNCHANGED << cache, inv, started >>

Unregister(tool_name) ==
    /\ tools' = [ tools EXCEPT ![tool_name] = NoneV ]
    /\ UNCHANGED << cache, inv, started >>

\* A clear that only notes that it ran.
ClearCache_KeepsEntries ==
    /\ inv' = [ i \in Inv |->
                  IF inv[i].pc = "done" /\ inv[i].out.type = "return"
                  THEN [ inv[i] EXCEPT !.cleared = TRUE ]
                  ELSE inv[i] ]
    /\ UNCHANGED << tools, cache, started >>

\* A clear that spares the entries of one-argument calls.
ClearCache_SparesSome ==
    /\ cache' = [ k \in CacheKeys |->
                    IF Len(k[1]) = 1 THEN cache[k] ELSE NoneV ]
    /\ inv' = [ i \in Inv |->
                  IF inv[i].pc = "done" /\ inv[i].out.type = "return"
                  THEN [ inv[i] EXCEPT !.cleared = TRUE ]
                  ELSE inv[i] ]
    /\ UNCHANGED << tools, started >>

\* clear_cache empties the cache; the calls that have returned a value
\* before it are marked.
ClearCache ==
    /\ cache' = [ k \in CacheKeys |-> NoneV ]
    /\ inv' = [ i \in Inv |->
                  IF inv[i].pc = "done" /\ inv[i].out.type = "return"
                  THEN [ inv[i] EXCEPT !.cleared = TRUE ]
                  ELSE inv[i] ]
    /\ UNCHANGED << tools, started >>

(***************************************************************************)
(* ToolRegistry.execute_tool, first step: lookup, validation, cache check  *)
(* and the start of the handler.                                           *)
(***************************************************************************)
NotFound(tool_name) == Raise("ToolError", << "not found", tool_name >>)

ValidationFailure(field) ==
    Raise("ToolValidationError", << "Required field is missing", field >>)

\* A cache check that never hits.
CacheHit_NeverHits(tool, kwargs) == NoneV

\* Lines 126-131: the cached entry to return, if any.
CacheHit(tool, kwargs) ==
    IF tool.metadata.cache_enabled
    THEN cache[get_cache_key(tool, kwargs)]
    ELSE NoneV

\* The call's record after the synchronous prefix of execute_tool.
execute_tool_begin(tool_name, kwargs) ==
    LET found == get_tool(tool_name)
        call == [ IdleInv EXCEPT !.name = tool_name, !.kwargs = kwargs,
                                 !.tool = found ]
    IN  IF found = NoneV
        THEN [ call EXCEPT !.pc = "done", !.out = NotFound(tool_name) ]
        ELSE LET tool == found[1]
                 missing == MissingField(tool, kwargs)
                 hit == CacheHit(tool, kwargs)
                 cache_key == IF tool.metadata.cache_enabled
                              THEN Some(get_cache_key(tool, kwargs))
                              ELSE NoneV
             IN  IF missing # NoneV
                 THEN [ call EXCEPT !.pc = "done",
                                    !.out = ValidationFailure(missing[1]) ]
                 ELSE IF hit # NoneV
                 THEN [ call EXCEPT !.pc = "done", !.read = TRUE,
                                    !.key = cache_key, !.how = "hit",
                                    !.out = Return(hit[1].value) ]
                 ELSE [ call EXCEPT !.pc = "running",
                                    !.key = cache_key,
                                    !.read = tool.metadata.cache_enabled,
                                    !.runs = 1 ]

\* An execute_tool that waits for a registry-wide lock, held by a call
\* until it returns.
ExecuteTool_Serialized(tool_name, kwargs) ==
    /\ started < MaxInv
    /\ \A j \in Inv : inv[j].pc # "running"
    /\ started' = started + 1
    /\ inv' = [ inv EXCEPT ![started + 1] =
                               execute_tool_begin(tool_name, kwargs) ]
    /\ UNCHANGED << tools, cache >>

ExecuteTool(tool_name, kwargs) ==
    /\ started < MaxInv
    /\ started' = started + 1
    /\ inv' = [ inv EXCEPT ![started + 1] =
                               execute_tool_begin(tool_name, kwargs) ]
    /\ UNCHANGED << tools, cache >>

(***************************************************************************)
(* ToolRegistry.execute_tool, second step: the await of the handler ends.  *)
(***************************************************************************)
\* A put that stores something other than the handler's result.
CachePut_StoresOther(i, v) ==
    LET tool == inv[i].tool[1]
    IN  IF tool.metadata.cache_enabled
        THEN [ cache EXCEPT ![get_cache_key(tool, inv[i].kwargs)] =
                 Some([ value |-> CHOOSE o \in Values : o # v, by |-> i ]) ]
        ELSE cache

\* A put into a cache bounded by the configured cache_max_size: when the
\* cache is full, the other entries make room.
CachePut_Evicts(i, v) ==
    LET tool == inv[i].tool[1]
        key == get_cache_key(tool, inv[i].kwargs)
        full == /\ config.obj # NoneV
                /\ Cardinality({ k \in DOMAIN cache : cache[k] # NoneV })
                      >= config.obj[1].cache_max_size
    IN  IF tool.metadata.cache_enabled
        THEN [ k \in DOMAIN cache |->
                 IF k = key THEN Some([ value |-> v, by |-> i ])
                 ELSE IF full THEN NoneV ELSE cache[k] ]
        ELSE cache

\* A put that looks the name up again and uses the descriptor registered
\* now (no put when the name has none).
CachePut_LooksUpAgain(i, v) ==
    LET now == get_tool(inv[i].name)
    IN  IF now # NoneV /\ now[1].metadata.cache_enabled
        THEN [ cache EXCEPT ![get_cache_key(now[1], inv[i].kwargs)] =
                                Some([ value |-> v, by |-> i ]) ]
        ELSE cache

\* A put made whether or not the tool has caching enabled.
CachePut_Always(i, v) ==
    [ cache EXCEPT ![get_cache_key(inv[i].tool[1], inv[i].kwargs)] =
                       Some([ value |-> v, by |-> i ]) ]

\* Lines 143-146: the cache after the handler returned v to call i.
CachePut(i, v) ==
    LET tool == inv[i].tool[1]
    IN  IF tool.metadata.cache_enabled
        THEN [ cache EXCEPT ![get_cache_key(tool, inv[i].kwargs)] =
                                Some([ value |-> v, by |-> i ]) ]
        ELSE cache

HandlerReturns(i, v) ==
    /\ inv[i].pc = "running"
    /\ cache' = CachePut(i, v)
    /\ inv' = [ inv EXCEPT ![i] =
                  [ @ EXCEPT !.pc = "done", !.how = "returned",
                             !.wrote = (cache' # cache),
                             !.out = Return(v) ] ]
    /\ UNCHANGED << tools, started >>

\* Lines 150-154: what execute_tool raises for an exception raised inside
\* its try block.
ExceptClauses(tool_name, exc) ==
    IF exc = "asyncio.TimeoutError"
    THEN Raise("ToolTimeoutError", << "execution timed out", tool_name >>)
    ELSE Raise("ToolError", << "Tool execution failed", exc >>)

\* A put of a late result in the except path.
CacheAfterRaise_Puts(i) == CachePut(i, "r1")

\* The cache after the await ended with an exception: no put is reached.
CacheAfterRaise(i) == cache

\* A failure that starts the handler again while the descriptor's
\* retry_attempts are not used up.
HandlerRaises_Retries(i, exc) ==
    /\ inv[i].pc = "running"
    /\ cache' = cache
    /\ inv' = [ inv EXCEPT ![i] =
                  IF @.runs <= @.tool[1].metadata.retry_attempts
                  THEN [ @ EXCEPT !.runs = @ + 1 ]
                  ELSE [ @ EXCEPT !.pc = "done", !.how = "raised",
                                  !.fault = exc,
                                  !.out = ExceptClauses(inv[i].name, exc) ] ]
    /\ UNCHANGED << tools, started >>

HandlerRaises(i, exc) ==
    /\ inv[i].pc = "running"
    /\ cache' = CacheAfterRaise(i)
    /\ inv' = [ inv EXCEPT ![i] =
                  [ @ EXCEPT !.pc = "done", !.how = "raised", !.fault = exc,
                             !.wrote = (cache' # cache),
                             !.out = ExceptClauses(inv[i].name, exc) ] ]
    /\ UNCHANGED << tools, started >>

\* Line 135: whether the handler runs under asyncio.wait_for.
HasTimeout(tool) == Truthy(tool.metadata.timeout)

\* asyncio.wait_for: the duration elapses before the handler ends; the
\* handler is cancelled and asyncio.TimeoutError is raised at the await.
TimeoutElapses(i) ==
    /\ inv[i].pc = "running"
    /\ HasTimeout(inv[i].tool[1])
    /\ cache' = CacheAfterRaise(i)
    /\ inv' = [ inv EXCEPT ![i] =
                  [ @ EXCEPT !.pc = "done", !.how = "timed_out",
                             !.wrote = (cache' # cache),
                             !.out = ExceptClauses(inv[i].name,
                                                   "asyncio.TimeoutError") ] ]
    /\ UNCHANGED << tools, started >>

\* The keys of a dict after a step: the keys kept, in their order, then
\* the key added.
dict_keys(order, d) ==
    LET kept == SelectSeq(order, LAMBDA n : d[n] # NoneV)
        new == { n \in Names :
                   d[n] # NoneV /\ \A m \in 1 .. Len(kept) : kept[m] # n }
    IN  IF new = {} THEN kept ELSE Append(kept, CHOOSE n \in new : TRUE)

KeysFollow == key_order' = dict_keys(key_order, tools')

(***************************************************************************)
(* Spec: one registry and its callers, around the cache.  The callers are  *)
(* host code (no transport): they register and unregister search_web,      *)
(* clear the cache and call execute_tool with any of the argument dicts,   *)
(* up to MaxInv calls.                                                     *)
(***************************************************************************)
Direct == UNCHANGED << tvars, log, pvars >> /\ KeysFollow

Next ==
    \/ Register(SearchWebTool) /\ Direct
    \/ Unregister("search_web") /\ Direct
    \/ ClearCache /\ Direct
    \/ \E a \in ArgDicts : ExecuteTool("search_web", a) /\ Direct
    \/ \E i \in Inv, v \in Values : HandlerReturns(i, v) /\ Direct
    \/ \E i \in Inv : HandlerRaises(i, "Exception") /\ Direct
    \/ \E i \in Inv : TimeoutElapses(i) /\ Direct

Spec == Init /\ [][Next]_vars

(***************************************************************************)
(* SpecTools: one registry and its callers, around the descriptors.  Any   *)
(* of the echo and raw tools is registered and unregistered; handlers      *)
(* return, raise either fault or run into their timeout; up to MaxCalls    *)
(* calls.                                                                  *)
(***************************************************************************)
ToolsNames == { "echo", "raw" }

ToolsArgs == { << >>, << << "query", PyInt(1) >>, << "x", PyInt(1) >> >> }

NextTools ==
    \/ \E t \in { EchoTool, EchoToolB, RawTool } : Register(t) /\ Direct
    \/ \E n \in ToolsNames : Unregister(n) /\ Direct
    \/ ClearCache /\ Direct
    \/ \E n \in ToolsNames, a \in ToolsArgs :
          started < MaxCalls /\ ExecuteTool(n, a) /\ Direct
    \/ \E i \in Inv, v \in Values : HandlerReturns(i, v) /\ Direct
    \/ \E i \in Inv, e \in Faults : HandlerRaises(i, e) /\ Direct
    \/ \E i \in Inv : TimeoutElapses(i) /\ Direct

SpecTools == Init /\ [][NextTools]_vars

(***************************************************************************)
(* SpecRegistry: one registry and its callers, around the entries.  The    *)
(* callers register the two echo tools (same name) and the raw tool,       *)
(* unregister any name, registered or not, and call execute_tool, whose    *)
(* lookups run while other calls are suspended in their handlers; up to    *)
(* MaxCalls calls.                                                         *)
(***************************************************************************)
RegistryTools == { EchoTool, EchoToolB, RawTool }

RegistryNames == { "echo", "raw", "ghost" }

\* The history of a register (tool given) or unregister (tool None) call.
Noted(op, name, tool) ==
    /\ log' = [ regd |-> [ log.regd EXCEPT ![name] = tool ],
                last |-> [ op |-> op, name |-> name, tool |-> tool,
                           before |-> tools ] ]
    /\ UNCHANGED << tvars, pvars >>
    /\ KeysFollow

NextRegistry ==
    \/ \E t \in RegistryTools :
          Register(t) /\ Noted("register", t.metadata.name, Some(t))
    \/ \E n \in RegistryNames :
          Unregister(n) /\ Noted("unregister", n, NoneV)
    \/ \E n \in RegistryNames :
          started < MaxCalls /\ ExecuteTool(n, << >>) /\ Direct
    \/ \E i \in Inv, v \in Values : HandlerReturns(i, v) /\ Direct
    \/ \E i \in Inv : HandlerRaises(i, "Exception") /\ Direct

SpecRegistry == Init /\ [][NextRegistry]_vars

(***************************************************************************)
(* The transport (server.py): requests, responses and the exceptions of    *)
(* the two entry points, POST /execute and the /ws endpoint.               *)
(***************************************************************************)
\* The registry's part of the state.
evars == << tools, cache, inv, started >>

\* A received text frame after json.loads: valid says the text was JSON,
\* obj that the JSON value was an object; id, method and params are the
\* object's entries (None when absent).  POST /execute receives an
\* MCPRequest, an envelope that has both id and method.
Envelope(id, method, params) ==
    [ valid |-> TRUE, obj |-> TRUE, id |-> id, method |-> method,
      params |-> params ]

NotJson ==
    [ valid |-> FALSE, obj |-> FALSE, id |-> NoneV, method |-> NoneV,
      params |-> NoneV ]

NotObject ==
    [ valid |-> TRUE, obj |-> FALSE, id |-> NoneV, method |-> NoneV,
      params |-> NoneV ]

\* The params dict: its "name" and "arguments" entries (None when absent).
Params(name, arguments) == Some([ name |-> name, arguments |-> arguments ])

\* `not request.params`: None or the empty dict.
NotParams(params) ==
    \/ params = NoneV
    \/ params[1].name = NoneV /\ params[1].arguments = NoneV

\* `not tool_name`: None or the empty string.
NotName(name) == name = NoneV \/ name[1] = ""

\* request.params.get("arguments", {}).
get_arguments(params) ==
    IF params[1].arguments = NoneV THEN << >> ELSE params[1].arguments[1]

\* The tools/call bodies: invalid method, no params, empty params, no tool
\* name, and calls of a default tool with and without its required field,
\* of a tool without required fields and of an unregistered name; three of
\* them also under a second request id.
Calls ==
    { Envelope(Some("7"), Some("tools/list"), NoneV),
      Envelope(Some("8"), Some("tools/list"), NoneV),
      Envelope(Some("8"), Some("tools/call"),
               Params(Some("search_web"), Some(<< << "query", PyInt(2) >> >>))),
      Envelope(Some("8"), Some("tools/call"), Params(Some("ghost"), NoneV)),
      Envelope(Some("7"), Some("tools/call"), NoneV),
      Envelope(Some("7"), Some("tools/call"), Params(NoneV, NoneV)),
      Envelope(Some("7"), Some("tools/call"), Params(NoneV, Some(<< >>))),
      Envelope(Some("7"), Some("tools/call"),
               Params(Some("search_web"), Some(<< << "query", PyInt(2) >> >>))),
      Envelope(Some("7"), Some("tools/call"),
               Params(Some("search_web"), NoneV)),
      Envelope(Some("7"), Some("tools/call"),
               Params(Some("get_current_time"), NoneV)),
      Envelope(Some("7"), Some("tools/call"), Params(Some("ghost"), NoneV)) }

\* The frames a /ws client sends: the bodies above, text that is not JSON,
\* JSON that is not an object, envelopes without id or without method, and
\* an unknown method.
Frames ==
    Calls \cup
    { NotJson, NotObject,
      Envelope(NoneV, Some("tools/list"), NoneV),
      Envelope(Some("7"), NoneV, NoneV),
      Envelope(Some("7"), Some("ping"), NoneV),
      Envelope(Some("8"), Some("ping"), NoneV) }

\* A response that carries one fixed id.
MCPResponse_FixedId(id, result, error) ==
    [ id |-> "7", result |-> result, error |-> error ]

MCPResponse(id, result, error) ==
    [ id |-> id, result |-> result, error |-> error ]

Error(code, message) == Some([ code |-> code, message |-> message ])

\* What an entry point's body does: return a response or raise.
Responds(resp) == [ kind |-> "response", resp |-> resp, exc |-> Pending ]

Raises(exc) ==
    [ kind |-> "raise", resp |-> MCPResponse("", NoneV, NoneV), exc |-> exc ]

\* `except ToolError`: the class and its subclasses (tools.py).
IsToolError_BaseOnly(exc) == exc.type = "ToolError"

IsToolError(exc) ==
    exc.type \in { "ToolError", "ToolValidationError", "ToolTimeoutError" }

(***************************************************************************)
(* POST /execute.                                                          *)
(***************************************************************************)
\* Lines 175-185: the exception the guards raise, if any.
ExecuteGuards(request) ==
    IF request.method[1] # "tools/call"
    THEN Some(Raise("HTTPException", << "Invalid method" >>))
    ELSE IF NotParams(request.params)
    THEN Some(Raise("HTTPException", << "Missing parameters" >>))
    ELSE IF NotName(request.params[1].name)
    THEN Some(Raise("HTTPException", << "Missing tool name" >>))
    ELSE NoneV

\* Lines 194-210: the except clauses around the whole body.
ExecuteExcept(request, exc) ==
    IF IsToolError(exc)
    THEN Responds(MCPResponse(request.id[1], NoneV,
                              Error(-32603, exc.msg)))
    ELSE Responds(MCPResponse(request.id[1], NoneV,
                              Error(-32603, << "Internal server error" >>)))

\* Lines 187-210: the body's end once execute_tool ended with out.
ExecuteEnd(request, out) ==
    IF out.type = "return"
    THEN Responds(MCPResponse(request.id[1], Some(out.value), NoneV))
    ELSE ExecuteExcept(request, out)

\* The framework's answer: a returned model is sent with status 200, an
\* HTTPException that leaves the handler with its status code and detail,
\* any other exception as status 500.
HttpAnswer(end) ==
    IF end.kind = "response"
    THEN [ status |-> 200, detail |-> << >>, resp |-> Some(end.resp) ]
    ELSE IF end.exc.type = "HTTPException"
    THEN [ status |-> 400, detail |-> end.exc.msg, resp |-> NoneV ]
    ELSE [ status |-> 500, detail |-> << "Internal Server Error" >>,
           resp |-> NoneV ]

(***************************************************************************)
(* _process_message.                                                       *)
(***************************************************************************)
\* message.get("id", "unknown").
get_id(message) == IF message.id = NoneV THEN "unknown" ELSE message.id[1]

\* Lines 408-432: the except clauses.  The last one evaluates message.get,
\* which raises AttributeError when message is not a dict.
ProcessExcept(message, exc) ==
    IF exc.type = "ValidationError"
    THEN Responds(MCPResponse(get_id(message), NoneV,
                              Error(-32600, << "Invalid request" >>)))
    ELSE IF IsToolError(exc)
    THEN Responds(MCPResponse(get_id(message), NoneV,
                              Error(-32603, exc.msg)))
    ELSE IF message.obj
    THEN Responds(MCPResponse(get_id(message), NoneV,
                              Error(-32603, << "Internal server error" >>)))
    ELSE Raises(Raise("AttributeError", << "get" >>))

\* An unknown method reported as an internal error.
MethodNotFound_AsInternal(message) ==
    Responds(MCPResponse(message.id[1], NoneV,
                         Error(-32603, << "Internal server error" >>)))

\* Lines 399-406: the answer to a method that is neither tools/list nor
\* tools/call.
MethodNotFound(message) ==
    Responds(MCPResponse(message.id[1], NoneV,
                         Error(-32601, << "Method not found",
                                          message.method[1] >>)))

\* Lines 352-406: what the body does before any await: a response, an
\* exception of its own, or None when it goes on to execute_tool.
ProcessBegin(message) ==
    IF ~message.obj
    THEN Some(ProcessExcept(message, Raise("TypeError", << "mapping" >>)))
    ELSE IF message.id = NoneV \/ message.method = NoneV
    THEN Some(ProcessExcept(message,
                            Raise("ValidationError", << "missing" >>)))
    ELSE IF message.method[1] = "tools/list"
    THEN Some(Responds(MCPResponse(message.id[1], Some(list_tools), NoneV)))
    ELSE IF message.method[1] = "tools/call"
    THEN IF NotParams(message.params)
         THEN Some(Responds(MCPResponse(message.id[1], NoneV,
                                        Error(-32602, << "Invalid params" >>))))
         ELSE IF NotName(message.params[1].name)
         THEN Some(Responds(MCPResponse(message.id[1], NoneV,
                                        Error(-32602,
                                              << "Missing tool name" >>))))
         ELSE NoneV
    ELSE Some(MethodNotFound(message))

\* Lines 392-432: the body's end once execute_tool ended with out.
ProcessEnd(message, out) ==
    IF out.type = "return"
    THEN Responds(MCPResponse(message.id[1], Some(out.value), NoneV))
    ELSE ProcessExcept(message, out)

(***************************************************************************)
(* The requests in flight.  chan is "http" or the socket; call is the      *)
(* number of the execute_tool call made for it (0: none); at is where the  *)
(* request stands: processing (suspended in execute_tool), answered (HTTP  *)
(* response given to the framework), sending, sent, unsent (the send       *)
(* failed) or dropped (the endpoint ended without a response).             *)
(***************************************************************************)
NewReq(chan, message) ==
    [ chan |-> chan, msg |-> message, call |-> 0, at |-> "processing",
      status |-> 0, detail |-> << >>, resp |-> NoneV ]

\* list.remove of disconnect: the first occurrence goes.
RECURSIVE Remove(_, _)
Remove(seq, x) ==
    IF seq = << >> THEN << >>
    ELSE IF Head(seq) = x THEN Tail(seq)
    ELSE << Head(seq) >> \o Remove(Tail(seq), x)

\* A disconnect that drops the newest connection instead.
disconnect_Newest(websocket) ==
    IF active_connections = << >> THEN << >>
    ELSE SubSeq(active_connections, 1, Len(active_connections) - 1)

\* ConnectionManager.disconnect.
disconnect(websocket) == Remove(active_connections, websocket)

\* The request once the handler of POST /execute ended.
HttpSettle(req, end) ==
    LET answer == HttpAnswer(end)
    IN  [ req EXCEPT !.at = "answered", !.status = answer.status,
                     !.detail = answer.detail, !.resp = answer.resp ]

\* The request once _process_message ended: its response goes to
\* send_personal_message; an exception leaves the endpoint's loop.
WsSettle(req, end) ==
    IF end.kind = "response"
    THEN [ req EXCEPT !.at = "sending", !.resp = Some(end.resp) ]
    ELSE [ req EXCEPT !.at = "dropped" ]

\* An endpoint that goes back to receive_text at once, leaving the response
\* to be sent later.
WsGoesOn_KeepsReading(w, r) ==
    /\ socks' = [ socks EXCEPT ![w] = [ @ EXCEPT !.st = "receiving" ] ]
    /\ UNCHANGED active_connections

\* websocket_endpoint after the request at the end of reqs' settled: on to
\* the send, or through `except Exception` to disconnect and out.
WsGoesOn(w, r) ==
    IF reqs'[r].at = "dropped"
    THEN /\ socks' = [ socks EXCEPT ![w] = [ @ EXCEPT !.st = "closed",
                                                      !.cur = 0 ] ]
         /\ active_connections' = disconnect(w)
    ELSE /\ socks' = [ socks EXCEPT ![w] =
                         [ @ EXCEPT !.st = reqs'[r].at, !.cur = r ] ]
         /\ UNCHANGED active_connections

\* POST /execute up to its first await, or to its end when none is reached.
HttpExecute(request) ==
    /\ Len(reqs) < MaxCalls
    /\ LET req == NewReq("http", request)
           raised == ExecuteGuards(request)
       IN  IF raised # NoneV
           THEN /\ reqs' = Append(reqs,
                      HttpSettle(req, ExecuteExcept(request, raised[1])))
                /\ UNCHANGED evars
           ELSE /\ ExecuteTool(request.params[1].name[1],
                               get_arguments(request.params))
                /\ LET call == inv'[started']
                       mine == [ req EXCEPT !.call = started' ]
                   IN  reqs' = Append(reqs,
                           IF call.pc = "done"
                           THEN HttpSettle(mine,
                                           ExecuteEnd(request, call.out))
                           ELSE mine)
    /\ UNCHANGED << socks, active_connections >>

\* ConnectionManager.connect.
WsConnect(w) ==
    /\ socks[w].st = "unconnected"
    /\ socks' = [ socks EXCEPT ![w] = [ @ EXCEPT !.st = "receiving" ] ]
    /\ active_connections' = Append(active_connections, w)
    /\ UNCHANGED << evars, reqs >>

\* Lines 219-223: a frame arrives; json.loads, then _process_message up to
\* its first await, or to its end when none is reached.
WsReceive(w, frame) ==
    /\ socks[w].st = "receiving"
    /\ ~socks[w].gone
    /\ Len(reqs) < MaxCalls
    /\ LET req == NewReq(w, frame)
           r == Len(reqs) + 1
           begin == ProcessBegin(frame)
       IN  IF ~frame.valid
           THEN /\ reqs' = Append(reqs,
                      WsSettle(req, Raises(Raise("JSONDecodeError",
                                                 << "json.loads" >>))))
                /\ UNCHANGED evars
                /\ WsGoesOn(w, r)
           ELSE IF begin # NoneV
           THEN /\ reqs' = Append(reqs, WsSettle(req, begin[1]))
                /\ UNCHANGED evars
                /\ WsGoesOn(w, r)
           ELSE /\ ExecuteTool(frame.params[1].name[1],
                               get_arguments(frame.params))
                /\ LET call == inv'[started']
                       mine == [ req EXCEPT !.call = started' ]
                   IN  reqs' = Append(reqs,
                           IF call.pc = "done"
                           THEN WsSettle(mine, ProcessEnd(frame, call.out))
                           ELSE mine)
                /\ WsGoesOn(w, r)

\* receive_text raises WebSocketDisconnect (the client closed) or, after a
\* failed send, a runtime error: either way disconnect and out.
WsReceiveFails(w) ==
    /\ socks[w].st = "receiving"
    /\ socks' = [ socks EXCEPT ![w] = [ @ EXCEPT !.st = "closed" ] ]
    /\ active_connections' = disconnect(w)
    /\ UNCHANGED << evars, reqs >>

\* send_personal_message: send_text succeeds, back to receive_text.
WsSendOk(w) ==
    /\ socks[w].st = "sending"
    /\ reqs' = [ reqs EXCEPT ![socks[w].cur] = [ @ EXCEPT !.at = "sent" ] ]
    /\ socks' = [ socks EXCEPT ![w] = [ @ EXCEPT !.st = "receiving",
                                                 !.cur = 0 ] ]
    /\ UNCHANGED << evars, active_connections >>

\* send_personal_message: send_text raises; the exception is swallowed, the
\* socket disconnected, and the loop goes back to receive_text.
WsSendFails(w) ==
    /\ socks[w].st = "sending"
    /\ reqs' = [ reqs EXCEPT ![socks[w].cur] = [ @ EXCEPT !.at = "unsent" ] ]
    /\ socks' = [ socks EXCEPT ![w] = [ @ EXCEPT !.st = "receiving",
                                                 !.cur = 0, !.gone = TRUE ] ]
    /\ active_connections' = disconnect(w)
    /\ UNCHANGED evars

\* The entry point that awaits call i resumes when the call ends.
Resume(i) ==
    LET r == CHOOSE n \in 1 .. Len(reqs) : reqs[n].call = i
        req == reqs[r]
    IN  IF req.chan = "http"
        THEN /\ reqs' = [ reqs EXCEPT ![r] =
                            HttpSettle(req, ExecuteEnd(req.msg, inv'[i].out)) ]
             /\ UNCHANGED << socks, active_connections >>
        ELSE /\ reqs' = [ reqs EXCEPT ![r] =
                            WsSettle(req, ProcessEnd(req.msg, inv'[i].out)) ]
             /\ WsGoesOn(req.chan, r)

(***************************************************************************)
(* SpecServer: the server after MCPServer.__init__ (the three default      *)
(* tools registered), one HTTP client and the /ws clients, up to MaxCalls  *)
(* requests.                                                               *)
(***************************************************************************)
InitServer ==
    /\ tools = [ n \in Names |->
                   IF \E t \in DefaultTools : t.metadata.name = n
                   THEN Some(CHOOSE t \in DefaultTools : t.metadata.name = n)
                   ELSE NoneV ]
    /\ cache = [ k \in CacheKeys |-> NoneV ]
    /\ inv = [ i \in Inv |-> IdleInv ]
    /\ started = 0
    /\ InitTransport
    /\ key_order = << "get_current_time", "search_web", "file_operations" >>
    /\ lists = << >>
    /\ fp = NoKeyCalls
    /\ config = NoConfig
    /\ bcast = NoBroadcast
    /\ log = [ regd |-> tools,
               last |-> [ op |-> "register", name |-> "file_operations",
                          tool |-> Some(FileOperationsTool),
                          before |-> [ tools EXCEPT
                                         !["file_operations"] = NoneV ] ] ]

\* The server's requests make no register or unregister call.
Served == UNCHANGED << log, pvars >> /\ KeysFollow

NextServer ==
    \/ \E request \in Calls : HttpExecute(request) /\ Served
    \/ \E w \in Sockets : WsConnect(w) /\ Served
    \/ \E w \in Sockets, frame \in Frames : WsReceive(w, frame) /\ Served
    \/ \E w \in Sockets : WsReceiveFails(w) /\ Served
    \/ \E w \in Sockets : WsSendOk(w) /\ Served
    \/ \E w \in Sockets : WsSendFails(w) /\ Served
    \/ \E i \in Inv, v \in Values : HandlerReturns(i, v) /\ Resume(i) /\ Served
    \/ \E i \in Inv, e \in Faults : HandlerRaises(i, e) /\ Resume(i) /\ Served
    \/ \E i \in Inv : TimeoutElapses(i) /\ Resume(i) /\ Served

SpecServer == InitServer /\ [][NextServer]_vars

(***************************************************************************)
(* SpecKey: get_cache_key called twice, on any two of the tools below      *)
(* with any two argument dicts of at most two items.                       *)
(***************************************************************************)
KeyTools == { EchoTool, EchoToolV2, RawTool }

\* The values callers pass: 1, 2, [1, 2] and (1, 2).
PyValues ==
    { PyInt(1), PyInt(2), PyList(<< 1, 2 >>), PyTuple(<< 1, 2 >>) }

\* The dicts over the keys query and x, in either insertion order.
KeyArgs ==
    { << >> }
    \cup { << << k, v >> >> : k \in { "query", "x" }, v \in PyValues }
    \cup { << << "query", v >>, << "x", w >> >> : v \in PyValues, w \in PyValues }
    \cup { << << "x", w >>, << "query", v >> >> : v \in PyValues, w \in PyValues }

KeyCalls == [ tool : KeyTools, kwargs : KeyArgs ]

InitKey ==
    /\ InitRegistry
    /\ InitTransport
    /\ fp \in [ a : KeyCalls, b : KeyCalls, ka : { NoneV }, kb : { NoneV } ]
    /\ config = NoConfig
    /\ bcast = NoBroadcast

OnlyFp ==
    UNCHANGED << tools, cache, inv, started, tvars, log, key_order, lists,
                 config, bcast >>

\* tool.get_cache_key(**kwargs), first call.
GetCacheKeyA ==
    /\ fp.ka = NoneV
    /\ fp' = [ fp EXCEPT !.ka = Some(get_cache_key(fp.a.tool, fp.a.kwargs)) ]
    /\ OnlyFp

\* tool.get_cache_key(**kwargs), second call.
GetCacheKeyB ==
    /\ fp.kb = NoneV
    /\ fp' = [ fp EXCEPT !.kb = Some(get_cache_key(fp.b.tool, fp.b.kwargs)) ]
    /\ OnlyFp

NextKey == GetCacheKeyA \/ GetCacheKeyB

SpecKey == InitKey /\ [][NextKey]_vars

(***************************************************************************)
(* SpecListing: one registry, its writers and its readers.  The callers    *)
(* register the two echo tools (same name) and the raw tool, unregister    *)
(* any name, and read the names with list_tools or GET /tools, up to       *)
(* MaxLists reads; they keep every list they got.                          *)
(***************************************************************************)
MaxLists == 2

\* A reference to the keys of self._tools themselves, not to a copy.
NewList_View(names) == [ view |-> TRUE, names |-> names ]

\* The list object list(...) builds: a copy of the names.
NewList(names) == [ view |-> FALSE, names |-> names ]

\* What a caller holding the object reads from it now.
Contents(l) == IF l.view THEN key_order ELSE l.names

\* The registry's writers, with their call history.
RegistryWrites ==
    \/ \E t \in RegistryTools :
          Register(t) /\ Noted("register", t.metadata.name, Some(t))
    \/ \E n \in RegistryNames :
          Unregister(n) /\ Noted("unregister", n, NoneV)

OnlyLists ==
    UNCHANGED << tools, cache, inv, started, tvars, log, key_order, fp,
                 config, bcast >>

\* registry.list_tools(); at is the registry the call found.
ListTools ==
    /\ Len(lists) < MaxLists
    /\ lists' = Append(lists, [ via |-> "list_tools", at |-> tools,
                                got |-> NewList(list_tools) ])
    /\ OnlyLists

\* GET /tools: the metadata name of every listed tool that has metadata;
\* the loop has no await.
HttpTools ==
    /\ Len(lists) < MaxLists
    /\ lists' =
          Append(lists,
                 [ via |-> "GET /tools", at |-> tools,
                   got |-> NewList(
                       [ n \in 1 .. Len(SelectSeq(list_tools,
                              LAMBDA m : get_tool_metadata(m) # NoneV)) |->
                           get_tool_metadata(
                               SelectSeq(list_tools,
                                   LAMBDA m : get_tool_metadata(m) # NoneV)[n]
                           )[1].name ]) ])
    /\ OnlyLists

NextListing == RegistryWrites \/ ListTools \/ HttpTools

SpecListing == Init /\ [][NextListing]_vars

(***************************************************************************)
(* MCPConfig (config.py): the dataclass, from_env and validate, reduced to *)
(* the server address, the debug flag and the retry and cache settings.    *)
(***************************************************************************)
\* A keyword argument, or the field's default when it is not passed.
OrDefault(arg, default) == IF arg = NoneV THEN default ELSE arg[1]

\* The dataclass constructor with the defaults of lines 19-47.
MCPConfig(kw) ==
    [ host |-> OrDefault(kw.host, "localhost"),
      port |-> OrDefault(kw.port, 8000),
      debug |-> OrDefault(kw.debug, TRUE),
      tool_retry_attempts |-> OrDefault(kw.tool_retry_attempts, 3),
      cache_enabled |-> TRUE,
      cache_ttl |-> OrDefault(kw.cache_ttl, 3600),
      cache_max_size |-> OrDefault(kw.cache_max_size, 1000) ]

\* int() of the port texts the environment may hold.
int(text) == IF text = "9000" THEN 9000 ELSE 8000

\* str.lower() of the debug texts the environment may hold.
lower(text) == IF text = "TRUE" THEN "true" ELSE text

\* MCPConfig.from_env: os.getenv with its defaults, then the constructor.
from_env(env) ==
    MCPConfig([ NoArgs EXCEPT
        !.host = Some(OrDefault(env.MCP_HOST, "localhost")),
        !.port = Some(int(OrDefault(env.MCP_PORT, "8000"))),
        !.debug = Some(lower(OrDefault(env.MCP_DEBUG, "false")) = "true"),
        !.tool_retry_attempts = Some(3),
        !.cache_ttl = Some(3600),
        !.cache_max_size = Some(1000) ])

\* MCPConfig.validate: the errors, in the order of the checks.
validate(self) ==
    (IF self.port < 1 \/ self.port > 65535
     THEN << "Port must be between 1 and 65535" >> ELSE << >>)
    \o (IF self.tool_retry_attempts < 0
        THEN << "Tool retry attempts must be non-negative" >> ELSE << >>)
    \o (IF self.cache_ttl < 1
        THEN << "Cache TTL must be at least 1 second" >> ELSE << >>)
    \o (IF self.cache_max_size < 1
        THEN << "Cache max size must be at least 1" >> ELSE << >>)

(***************************************************************************)
(* SpecConfig: a caller with any of the keyword arguments and environments *)
(* below constructs a configuration, directly or from the environment,     *)
(* and validates it.                                                       *)
(***************************************************************************)
ConfigArgs ==
    [ host : { NoneV, Some("0.0.0.0") },
      port : { NoneV, Some(9000), Some(99999) },
      debug : { NoneV, Some(TRUE), Some(FALSE) },
      tool_retry_attempts : { NoneV, Some(0) },
      cache_ttl : { NoneV, Some(1) },
      cache_max_size : { NoneV, Some(1) } ]

ConfigEnvs ==
    [ MCP_HOST : { NoneV, Some("0.0.0.0") },
      MCP_PORT : { NoneV, Some("9000") },
      MCP_DEBUG : { NoneV, Some("true"), Some("TRUE"), Some("false") } ]

InitConfig ==
    /\ InitRegistry
    /\ InitTransport
    /\ fp = NoKeyCalls
    /\ config \in { [ NoConfig EXCEPT !.given = kw, !.env = env ] :
                      kw \in ConfigArgs, env \in ConfigEnvs }
    /\ bcast = NoBroadcast

OnlyConfig ==
    UNCHANGED << tools, cache, inv, started, tvars, log, key_order, lists,
                 fp, bcast >>

\* config = MCPConfig(**given)
Construct ==
    /\ config.obj = NoneV
    /\ config' = [ config EXCEPT !.obj = Some(MCPConfig(config.given)),
                                 !.via = "MCPConfig" ]
    /\ OnlyConfig

\* config = MCPConfig.from_env()
ConstructFromEnv ==
    /\ config.obj = NoneV
    /\ config' = [ config EXCEPT !.obj = Some(from_env(config.env)),
                                 !.via = "from_env" ]
    /\ OnlyConfig

\* errors = config.validate()
Validate ==
    /\ config.obj # NoneV
    /\ config.errors = NoneV
    /\ config' = [ config EXCEPT !.errors = Some(validate(config.obj[1])) ]
    /\ OnlyConfig

NextConfig == Construct \/ ConstructFromEnv \/ Validate

SpecConfig == InitConfig /\ [][NextConfig]_vars

(***************************************************************************)
(* SpecHosted: the registry of a host that holds a validated               *)
(* configuration (MCPServer.__init__ keeps the config and constructs       *)
(* ToolRegistry() without it): the defaults, or no retry and the smallest  *)
(* valid cache_ttl and cache_max_size.  The callers are those of           *)
(* SpecTools.                                                              *)
(***************************************************************************)
HostArgs ==
    { NoArgs,
      [ NoArgs EXCEPT !.tool_retry_attempts = Some(0), !.cache_ttl = Some(1),
                      !.cache_max_size = Some(1) ] }

InitHosted ==
    /\ InitRegistry
    /\ InitTransport
    /\ fp = NoKeyCalls
    /\ config \in { [ NoConfig EXCEPT !.given = kw,
                                      !.obj = Some(MCPConfig(kw)),
                                      !.via = "MCPConfig",
                                      !.errors = Some(validate(MCPConfig(kw))) ] :
                      kw \in HostArgs }
    /\ bcast = NoBroadcast

SpecHosted == InitHosted /\ [][NextTools]_vars

(***************************************************************************)
(* ConnectionManager.broadcast (server.py:72-84): a for loop over the list *)
(* active_connections itself, with an await of send_text in its body, then *)
(* the removal of the connections whose send raised.                       *)
(***************************************************************************)
RECURSIVE RemoveAll(_, _)
\* The second loop: disconnect of every connection of the local list.
RemoveAll(seq, gone) ==
    IF gone = << >> THEN seq
    ELSE RemoveAll(Remove(seq, Head(gone)), Tail(gone))

\* The for statement asks the list iterator for its next item: the item at
\* position i of the list as it is now, or the end of the loop, after which
\* the second loop runs without suspension and broadcast returns.
BroadcastNext(b) ==
    IF b.i <= Len(active_connections)
    THEN /\ bcast' = [ b EXCEPT !.pc = "sending",
                                !.connection = active_connections[b.i],
                                !.i = b.i + 1,
                                !.sent = Append(b.sent, active_connections[b.i]) ]
         /\ UNCHANGED active_connections
    ELSE /\ active_connections' = RemoveAll(active_connections, b.disconnected)
         /\ bcast' = [ b EXCEPT !.pc = "done", !.connection = "" ]

\* Host code calls broadcast(message).
Broadcast ==
    /\ bcast.pc = "idle"
    /\ BroadcastNext([ bcast EXCEPT !.stayed = Range(active_connections) ])
    /\ UNCHANGED << evars, reqs, socks >>

\* await connection.send_text(message) returns.
BroadcastSendOk ==
    /\ bcast.pc = "sending"
    /\ BroadcastNext(bcast)
    /\ UNCHANGED << evars, reqs, socks >>

\* await connection.send_text(message) raises.
BroadcastSendFails ==
    /\ bcast.pc = "sending"
    /\ BroadcastNext([ bcast EXCEPT
           !.disconnected = Append(@, bcast.connection) ])
    /\ socks' = [ socks EXCEPT ![bcast.connection] = [ @ EXCEPT !.gone = TRUE ] ]
    /\ UNCHANGED << evars, reqs >>

(***************************************************************************)
(* SpecBroadcast: three WebSocket clients connect and disconnect at any    *)
(* time while host code makes one broadcast call.                          *)
(***************************************************************************)
BroadcastSockets == { "ws1", "ws2", "ws3" }

InitBroadcast ==
    /\ InitRegistry
    /\ reqs = << >>
    /\ socks = [ w \in BroadcastSockets |-> NewSocket ]
    /\ active_connections = << >>
    /\ fp = NoKeyCalls
    /\ config = NoConfig
    /\ bcast = NoBroadcast

\* A step of a /ws endpoint, seen from a broadcast call in progress.
Meanwhile ==
    /\ bcast' = [ bcast EXCEPT !.stayed =
                    IF bcast.pc = "sending"
                    THEN @ \cap Range(active_connections') ELSE @ ]
    /\ UNCHANGED << log, key_order, lists, fp, config >>

Apart == UNCHANGED << log, key_order, lists, fp, config >>

NextBroadcast ==
    \/ \E w \in BroadcastSockets : WsConnect(w) /\ Meanwhile
    \/ \E w \in BroadcastSockets : WsReceiveFails(w) /\ Meanwhile
    \/ Broadcast /\ Apart
    \/ BroadcastSendOk /\ Apart
    \/ BroadcastSendFails /\ Apart

SpecBroadcast == InitBroadcast /\ [][NextBroadcast]_vars

(***************************************************************************)
(* SpecSwap: one registry whose callers replace the tool behind one name.  *)
(* Four tools are registered under "echo" (a second handler, a new         *)
(* version, caching off), the name is unregistered, the cache cleared, and *)
(* execute_tool called while other calls are suspended; up to MaxCalls     *)
(* calls.                                                                  *)
(***************************************************************************)
SwapTools == { EchoTool, EchoToolB, EchoToolV2, EchoToolNoCache }

NextSwap ==
    \/ \E t \in SwapTools : Register(t) /\ Direct
    \/ Unregister("echo") /\ Direct
    \/ ClearCache /\ Direct
    \/ \E a \in ToolsArgs :
          started < MaxCalls /\ ExecuteTool("echo", a) /\ Direct
    \/ \E i \in Inv, v \in Values : HandlerReturns(i, v) /\ Direct
    \/ \E i \in Inv : HandlerRaises(i, "Exception") /\ Direct
    \/ \E i \in Inv : TimeoutElapses(i) /\ Direct

SpecSwap == Init /\ [][NextSwap]_vars

(***************************************************************************)
(* SpecSockets: the server after MCPServer.__init__ and two /ws clients,   *)
(* which connect, send any of the frames, have their sends fail and        *)
(* disconnect, in any order; up to MaxCalls requests.                      *)
(***************************************************************************)
LoopSockets == { "ws1", "ws2" }

InitSockets ==
    /\ tools = [ n \in Names |->
                   IF \E t \in DefaultTools : t.metadata.name = n
                   THEN Some(CHOOSE t \in DefaultTools : t.metadata.name = n)
                   ELSE NoneV ]
    /\ cache = [ k \in CacheKeys |-> NoneV ]
    /\ inv = [ i \in Inv |-> IdleInv ]
    /\ started = 0
    /\ reqs = << >>
    /\ socks = [ w \in LoopSockets |-> NewSocket ]
    /\ active_connections = << >>
    /\ key_order = << "get_current_time", "search_web", "file_operations" >>
    /\ lists = << >>
    /\ fp = NoKeyCalls
    /\ config = NoConfig
    /\ bcast = NoBroadcast
    /\ log = [ regd |-> tools,
               last |-> [ op |-> "register", name |-> "file_operations",
                          tool |-> Some(FileOperationsTool),
                          before |-> [ tools EXCEPT
                                         !["file_operations"] = NoneV ] ] ]

NextSockets ==
    \/ \E w \in LoopSockets : WsConnect(w) /\ Served
    \/ \E w \in LoopSockets, frame \in Frames : WsReceive(w, frame) /\ Served
    \/ \E w \in LoopSockets : WsReceiveFails(w) /\ Served
    \/ \E w \in LoopSockets : WsSendOk(w) /\ Served
    \/ \E w \in LoopSockets : WsSendFails(w) /\ Served
    \/ \E i \in Inv, v \in Values : HandlerReturns(i, v) /\ Resume(i) /\ Served
    \/ \E i \in Inv : HandlerRaises(i, "Exception") /\ Resume(i) /\ Served
    \/ \E i \in Inv : TimeoutElapses(i) /\ Resume(i) /\ Served

SpecSockets == InitSockets /\ [][NextSockets]_vars

(***************************************************************************)
(* Vocabulary of the properties.                                           *)
(***************************************************************************)
Found(i) == inv[i].pc # "idle" /\ inv[i].tool # NoneV

\* The fingerprint of a call that computed one.
KeyOf(i) == inv[i].key[1]

CacheEnabled(i) == Found(i) /\ inv[i].key # NoneV

Returned(i) == inv[i].pc = "done" /\ inv[i].out.type = "return"

\* Call i arrives in this step.
Arrives(i) == inv[i].pc = "idle" /\ inv'[i].pc # "idle"

\* The call arriving as i finds a cache-enabled tool and has the capability
\* name, version and argument set (in any key order) of the ended call j.
SameCallArrives(i, j) ==
    /\ Arrives(i)
    /\ inv'[i].tool # NoneV
    /\ inv'[i].tool[1].metadata.cache_enabled
    /\ CacheEnabled(j)
    /\ inv'[i].name = inv[j].name
    /\ inv'[i].tool[1].metadata.version = inv[j].tool[1].metadata.version
    /\ { inv'[i].kwargs[n] : n \in 1 .. Len(inv'[i].kwargs) }
         = { inv[j].kwargs[n] : n \in 1 .. Len(inv[j].kwargs) }

(***************************************************************************)
(* C1, as claimed: once a call of a cache-enabled capability has returned  *)
(* and clear_cache has not run since, every later call with the same name, *)
(* version and argument set returns the value that first call returned,    *)
(* without executing the handler.                                          *)
(***************************************************************************)
C1_FirstValueForever ==
    [][ \A i, j \in Inv :
          (Returned(j) /\ ~inv[j].cleared /\ SameCallArrives(i, j))
            => /\ inv'[i].runs = 0
               /\ inv'[i].out = Return(inv[j].out.value) ]_vars

(***************************************************************************)
(* C1, amended: such a later call does not execute the handler and returns *)
(* the value now cached under the fingerprint, which is the value returned *)
(* by the latest handler execution that stored under it since the last     *)
(* clear_cache (the first call's own value when no other call stored       *)
(* after it).                                                              *)
(***************************************************************************)
C1_CachedValueReturned ==
    [][ \A i, j \in Inv :
          (Returned(j) /\ ~inv[j].cleared /\ SameCallArrives(i, j))
            => LET entry == cache[KeyOf(j)]
               IN  /\ entry # NoneV
                   /\ inv'[i].pc = "done"
                   /\ inv'[i].runs = 0
                   /\ inv'[i].out = Return(entry[1].value)
                   /\ LET w == entry[1].by
                      IN  /\ inv[w].how = "returned"
                          /\ ~inv[w].cleared
                          /\ KeyOf(w) = KeyOf(j)
                          /\ inv[w].out = Return(entry[1].value)
                          /\ (inv[j].how = "returned"
                                /\ \A m \in Inv \ { j } :
                                     ~(inv[m].how = "returned"
                                         /\ ~inv[m].cleared
                                         /\ inv[m].key = inv[j].key))
                               => w = j ]_vars

\* A call answered from the cache that an earlier call, made with the same
\* arguments in another key order, filled.
C1_Witness ==
    \E i, j \in Inv :
        /\ i # j
        /\ inv[i].how = "hit"
        /\ inv[j].how = "returned"
        /\ ~inv[j].cleared
        /\ cache[KeyOf(j)] # NoneV
        /\ cache[KeyOf(j)][1].by = j
        /\ KeyOf(i) = KeyOf(j)
        /\ inv[i].kwargs # inv[j].kwargs
        /\ inv[i].out = inv[j].out

(***************************************************************************)
(* C2: a call that ended with ToolTimeoutError has stored nothing in the   *)
(* cache, at its timeout or in any later state: no entry is its own, and   *)
(* whatever is cached under its fingerprint was stored by another call     *)
(* whose handler returned.                                                 *)
(***************************************************************************)
C2_TimeoutNeverCached ==
    \A i \in Inv :
        (inv[i].pc = "done" /\ inv[i].out.type = "ToolTimeoutError")
          => /\ ~inv[i].wrote
             /\ \A k \in CacheKeys : cache[k] # NoneV => cache[k][1].by # i
             /\ (CacheEnabled(i) /\ cache[KeyOf(i)] # NoneV)
                  => LET w == cache[KeyOf(i)][1].by
                     IN  w # i /\ inv[w].how = "returned"

\* A call has timed out and another call has filled the cache under the
\* same fingerprint.
C2_Witness ==
    \E i \in Inv :
        /\ inv[i].how = "timed_out"
        /\ inv[i].out.type = "ToolTimeoutError"
        /\ CacheEnabled(i)
        /\ cache[KeyOf(i)] # NoneV

(***************************************************************************)
(* C3, as claimed: whenever the handler of a capability whose descriptor   *)
(* has a timeout set (not None) is still running, the engine bounds it:    *)
(* the elapsing of the duration cancels it and the call fails with         *)
(* ToolTimeoutError.                                                       *)
(***************************************************************************)
C3_TimeoutSetIsEnforced ==
    \A i \in Inv :
        (inv[i].pc = "running" /\ inv[i].tool[1].metadata.timeout # NoneV)
          => ENABLED TimeoutElapses(i)

(***************************************************************************)
(* C4, as claimed: whatever fault the handler raises, the call fails with  *)
(* ToolError "Tool execution failed" carrying the fault's description, and *)
(* stores nothing in the cache.                                            *)
(***************************************************************************)
C4_FaultsAreWrapped ==
    \A i \in Inv :
        inv[i].how = "raised"
          => /\ inv[i].out =
                  Raise("ToolError", << "Tool execution failed", inv[i].fault >>)
             /\ ~inv[i].wrote

(***************************************************************************)
(* C5, as claimed: two calls of one cache-enabled capability with the same *)
(* arguments execute the handler at most twice in total and, when both     *)
(* return, return equal results.                                           *)
(***************************************************************************)
SameFingerprint(i, j) ==
    /\ i # j
    /\ CacheEnabled(i)
    /\ CacheEnabled(j)
    /\ KeyOf(i) = KeyOf(j)
    /\ inv[i].tool = inv[j].tool

C5_TwoCallsEqualResults ==
    \A i, j \in Inv :
        SameFingerprint(i, j)
          => /\ inv[i].runs + inv[j].runs <= 2
             /\ (Returned(i) /\ Returned(j)) => inv[i].out = inv[j].out

(***************************************************************************)
(* C5, amended: the handler is executed at most twice in total, and the    *)
(* two calls return equal results whenever only one of them executed the   *)
(* handler and no third call used the fingerprint (the other call was      *)
(* answered from the cache the first filled).                              *)
(***************************************************************************)
OnlyCallsOn(i, j) ==
    \A m \in Inv \ { i, j } : inv[m].key # inv[i].key

C5_EqualWhenOneExecution ==
    \A i, j \in Inv :
        SameFingerprint(i, j)
          => /\ inv[i].runs + inv[j].runs <= 2
             /\ (Returned(i) /\ Returned(j) /\ OnlyCallsOn(i, j)
                   /\ inv[i].runs + inv[j].runs = 1)
                  => inv[i].out = inv[j].out

\* Two calls with one fingerprint: one executed the handler, the other was
\* answered from the cache, and no third call used the fingerprint.
C5_Witness ==
    \E i, j \in Inv :
        /\ SameFingerprint(i, j)
        /\ OnlyCallsOn(i, j)
        /\ inv[i].how = "returned"
        /\ inv[j].how = "hit"
        /\ inv[i].runs + inv[j].runs = 1

(***************************************************************************)
(* C6: a call whose name has no registry entry when it arrives fails with  *)
(* ToolError naming the missing tool; it executes no handler and neither   *)
(* reads nor changes the cache.                                            *)
(***************************************************************************)
C6_UnregisteredNameNotFound ==
    [][ \A i \in Inv :
          (Arrives(i) /\ tools[inv'[i].name] = NoneV)
            => /\ inv'[i].pc = "done"
               /\ inv'[i].out = Raise("ToolError",
                                      << "not found", inv'[i].name >>)
               /\ inv'[i].runs = 0
               /\ ~inv'[i].read
               /\ ~inv'[i].wrote
               /\ cache' = cache ]_vars

\* A call of a name that was registered and then unregistered, with results
\* of the former tool still in the cache.
C6_Witness ==
    \E i \in Inv :
        /\ inv[i].pc = "done"
        /\ inv[i].tool = NoneV
        /\ inv[i].out.type = "ToolError"
        /\ \E k \in CacheKeys : k[2] = inv[i].name /\ cache[k] # NoneV

(***************************************************************************)
(* C7: a call that finds its tool but lacks a field the tool's input       *)
(* schema requires fails with ToolValidationError naming a missing         *)
(* required field; it executes no handler and neither reads nor changes    *)
(* the cache, whatever is cached for its arguments.                        *)
(***************************************************************************)
C7_MissingFieldRejected ==
    [][ \A i \in Inv :
          LET found == tools[inv'[i].name]
              req == found[1].metadata.required
              lacking == { req[n] : n \in 1 .. Len(req) }
                           \ Keys(inv'[i].kwargs)
          IN  (Arrives(i) /\ found # NoneV /\ lacking # {})
                => /\ inv'[i].pc = "done"
                   /\ inv'[i].out.type = "ToolValidationError"
                   /\ inv'[i].out.msg[2] \in lacking
                   /\ inv'[i].runs = 0
                   /\ ~inv'[i].read
                   /\ ~inv'[i].wrote
                   /\ cache' = cache ]_vars

\* A call rejected for a missing field while a result for its very
\* arguments is in the cache.
C7_Witness ==
    \E i \in Inv :
        /\ inv[i].pc = "done"
        /\ inv[i].out.type = "ToolValidationError"
        /\ inv[i].out.msg[2] = "query"
        /\ cache[get_cache_key(inv[i].tool[1], inv[i].kwargs)] # NoneV

(***************************************************************************)
(* Vocabulary of the transport properties.                                 *)
(***************************************************************************)
Requests == 1 .. Len(reqs)

\* Request r reached execute_tool and the call ended with an exception.
ToolFailed(r) ==
    /\ reqs[r].call # 0
    /\ inv[reqs[r].call].pc = "done"
    /\ inv[reqs[r].call].out.type # "return"

\* The caller of request r was given a response with the request's id, a
\* null result and an error whose message is the exception's text.
FailureReported(r) ==
    /\ reqs[r].at \in { "answered", "sending", "sent", "unsent" }
    /\ reqs[r].chan = "http" => reqs[r].status = 200
    /\ reqs[r].resp # NoneV
    /\ reqs[r].resp[1].id = reqs[r].msg.id[1]
    /\ reqs[r].resp[1].result = NoneV
    /\ reqs[r].resp[1].error # NoneV
    /\ reqs[r].resp[1].error[1].message = inv[reqs[r].call].out.msg

\* C8: a tools/call request whose execute_tool call fails (not found,
\* validation, timeout or execution failure), on POST /execute or on /ws,
\* never leaves the entry point as an exception: the entry point produces a
\* response with a null result and an error describing the failure.
C8_ToolFailuresAreReported ==
    \A r \in Requests : ToolFailed(r) => FailureReported(r)

\* A timed-out call over HTTP and a failed handler over /ws, both reported.
C8_Witness ==
    \E r \in Requests, q \in Requests :
        /\ reqs[r].chan = "http" /\ ToolFailed(r) /\ FailureReported(r)
        /\ inv[reqs[r].call].how = "timed_out"
        /\ reqs[q].chan # "http" /\ ToolFailed(q) /\ FailureReported(q)
        /\ inv[reqs[q].call].how = "raised"
        /\ reqs[q].at = "sent"

\* The frame of request r is a transport-level fault.
TransportFault(message) ==
    \/ ~message.valid
    \/ ~message.obj
    \/ message.id = NoneV
    \/ message.method = NoneV
    \/ message.method[1] \notin { "tools/list", "tools/call" }

\* C9: on /ws every frame that is a transport-level fault (not JSON, not an
\* object, no id or no method, unknown method) gets an error response and
\* the connection is not dropped because of it.
C9_TransportFaultsAreAnswered ==
    \A r \in Requests :
        reqs[r].chan # "http" /\ TransportFault(reqs[r].msg) =>
            /\ reqs[r].at # "dropped"
            /\ reqs[r].resp # NoneV
            /\ reqs[r].resp[1].result = NoneV
            /\ reqs[r].resp[1].error # NoneV

\* C10: a POST /execute whose method is not tools/call is answered with
\* status 400 "Invalid method", one without params or without tool name
\* with status 400 "Missing parameters" / "Missing tool name", and no tool
\* is executed for any of them.
C10_BadExecuteIs400 ==
    \A r \in Requests :
        LET request == reqs[r].msg
            invalid == request.method[1] # "tools/call"
            noparams == ~invalid /\ NotParams(request.params)
            noname == ~invalid /\ ~noparams
                      /\ NotName(request.params[1].name)
        IN  reqs[r].chan = "http" /\ (invalid \/ noparams \/ noname) =>
                /\ reqs[r].call = 0
                /\ reqs[r].status = 400
                /\ invalid => reqs[r].detail = << "Invalid method" >>
                /\ noparams => reqs[r].detail = << "Missing parameters" >>
                /\ noname => reqs[r].detail = << "Missing tool name" >>

(***************************************************************************)
(* Vocabulary of the registry properties.                                  *)
(***************************************************************************)
\* The names with an entry in registry d.
NamesOf(d) == { n \in Names : d[n] # NoneV }

\* A lookup result for name n that is 'not found' or one whole registered
\* tool: metadata and handler of the same object, filed under its own name.
WholeEntry(entry, n) ==
    \/ entry = NoneV
    \/ entry[1] \in Tools /\ entry[1].metadata.name = n

\* C11: register calls of different names, interleaved with each other,
\* with unregister calls and with invocations in flight, lose no update:
\* every name registered and not unregistered since is listed, with the
\* entry of its latest register call.
C11_NoRegisterLost ==
    \A n \in Names :
        log.regd[n] # NoneV => n \in Range(list_tools) /\ tools[n] = log.regd[n]

\* Both names registered, the second while the first was present and an
\* invocation was suspended in its handler.
C11_Witness ==
    /\ log.last.op = "register"
    /\ log.last.before[log.last.name] = NoneV
    /\ \E m \in Names \ { log.last.name } :
          /\ log.last.before[m] # NoneV
          /\ tools[m] = log.regd[m]
    /\ tools[log.last.name] = log.last.tool
    /\ \E i \in Inv : inv[i].pc = "running"

\* C12: a lookup, whenever it runs among the register and unregister calls
\* of its name, gives 'not found' or one whole entry, the one of a single
\* register call; so do get_tool_metadata and the lookups execute_tool made.
C12_LookupIsWhole ==
    /\ \A n \in Names :
          /\ WholeEntry(get_tool(n), n)
          /\ get_tool(n) \in { NoneV, log.regd[n] }
          /\ get_tool_metadata(n) # NoneV =>
                /\ get_tool(n) # NoneV
                /\ BaseTool(get_tool_metadata(n)[1], get_tool(n)[1].impl)
                     \in Tools
    /\ \A i \in Inv :
          inv[i].pc # "idle" => WholeEntry(inv[i].tool, inv[i].name)

\* An invocation suspended with the entry it looked up, while the name was
\* re-registered with another tool: both lookups are whole.
C12_Witness ==
    \E i \in Inv :
        /\ inv[i].pc = "running"
        /\ log.last.op = "register"
        /\ log.last.name = inv[i].name
        /\ log.last.before[inv[i].name] = inv[i].tool
        /\ get_tool(inv[i].name) # inv[i].tool
        /\ get_tool(inv[i].name) = log.last.tool

\* C13: from a register call until the next register or unregister of the
\* same name, a lookup of the name returns the registered tool and
\* get_tool_metadata its metadata.
C13_LookupRoundTrip ==
    \A n \in Names :
        log.regd[n] # NoneV =>
            /\ get_tool(n) = log.regd[n]
            /\ get_tool_metadata(n) = Some(log.regd[n][1].metadata)

\* A tool with a required field and a timeout, registered and then found by
\* an invocation, after calls on another name.
C13_Witness ==
    /\ log.regd["echo"] = Some(EchoToolB)
    /\ get_tool("echo") = Some(EchoToolB)
    /\ get_tool_metadata("echo") = Some(EchoToolB.metadata)
    /\ log.last.name = "raw"
    /\ \E i \in Inv : inv[i].name = "echo" /\ inv[i].tool = Some(EchoToolB)

\* C14: a register under a name already registered replaces the entry: the
\* name has the second tool, the listed names are those listed before (same
\* count) and every other entry is as before.
C14_OverwriteKeepsOneEntry ==
    (log.last.op = "register" /\ log.last.before[log.last.name] # NoneV) =>
        /\ tools[log.last.name] = log.last.tool
        /\ Range(list_tools) = NamesOf(log.last.before)
        /\ Len(list_tools) = Cardinality(NamesOf(log.last.before))
        /\ \A m \in Names \ { log.last.name } :
              tools[m] = log.last.before[m]

\* The echo entry replaced by the other echo tool, next to the raw entry.
C14_Witness ==
    /\ log.last.op = "register"
    /\ log.last.before[log.last.name] # NoneV
    /\ log.last.before[log.last.name] # log.last.tool
    /\ tools[log.last.name] = log.last.tool
    /\ \E m \in Names \ { log.last.name } : tools[m] # NoneV

\* C15: unregister removes the entry of the name if there is one (a lookup
\* then finds nothing, the name is not listed), leaves every other entry as
\* it was, changes nothing when the name has no entry, and never raises (it
\* can always be called and complete).
C15_UnregisterRemovesOnlyName ==
    /\ log.last.op = "unregister" =>
          /\ get_tool(log.last.name) = NoneV
          /\ log.last.name \notin Range(list_tools)
          /\ \A m \in Names \ { log.last.name } :
                tools[m] = log.last.before[m]
          /\ log.last.before[log.last.name] = NoneV =>
                tools = log.last.before
    /\ \A n \in RegistryNames : ENABLED Unregister(n)

\* An entry removed next to another that stays.
C15_Witness ==
    /\ log.last.op = "unregister"
    /\ log.last.before[log.last.name] # NoneV
    /\ get_tool(log.last.name) = NoneV
    /\ \E m \in Names \ { log.last.name } : tools[m] # NoneV

\* An unregister of a name that has no entry, next to an entry that stays.
C15_WitnessAbsent ==
    /\ log.last.op = "unregister"
    /\ log.last.before[log.last.name] = NoneV
    /\ tools = log.last.before
    /\ \E m \in Names : tools[m] # NoneV

(***************************************************************************)
(* Vocabulary of the clear_cache properties.                               *)
(***************************************************************************)
\* The call arriving as i passes lookup and validation for a cache-enabled
\* tool, and its fingerprint is one that call j was answered under before a
\* clear_cache.
ArrivesAfterClear(i, j) ==
    /\ Arrives(i)
    /\ inv'[i].key # NoneV
    /\ Returned(j)
    /\ inv[j].cleared
    /\ inv[j].key = inv'[i].key

\* Call m arrived before the latest clear_cache: a call that arrived no
\* earlier than m had already returned when a clear_cache ran.
ArrivedBeforeClear(m) == \E j \in Inv : j >= m /\ inv[j].cleared

\* Call m stored its result under fingerprint key after the latest
\* clear_cache.
PutSinceClear(m, key) ==
    inv[m].how = "returned" /\ ~inv[m].cleared /\ inv[m].key = key

(***************************************************************************)
(* C16, as claimed: after clear_cache, the next call of a previously cached *)
(* (capability, arguments) pair, i.e. one arriving when every other call   *)
(* of the pair had arrived before the clear, executes the handler.         *)
(***************************************************************************)
C16_NextCallRunsHandler ==
    [][ \A i, j \in Inv :
          ( /\ ArrivesAfterClear(i, j)
            /\ \A m \in Inv \ { i } :
                  (inv[m].pc # "idle" /\ inv[m].key = inv'[i].key)
                    => ArrivedBeforeClear(m) )
            => /\ inv'[i].pc = "running"
               /\ inv'[i].runs = 1 ]_vars

(***************************************************************************)
(* C16, amended: such a call executes the handler when no call has stored  *)
(* a result under the fingerprint since the clear; otherwise (a call in    *)
(* flight at the clear stored its result afterwards) it is answered from   *)
(* that entry, not from the cleared one.                                   *)
(***************************************************************************)
C16_CallRunsHandlerUnlessPutSince ==
    [][ \A i, j \in Inv :
          ArrivesAfterClear(i, j)
            => IF \E m \in Inv : PutSinceClear(m, inv'[i].key)
               THEN /\ inv'[i].how = "hit"
                    /\ LET w == cache[inv'[i].key[1]][1].by
                       IN  /\ PutSinceClear(w, inv'[i].key)
                           /\ inv'[i].out = inv[w].out
               ELSE /\ inv'[i].pc = "running"
                    /\ inv'[i].runs = 1 ]_vars

\* A call was answered from the cache, clear_cache ran, and a later call
\* with the same fingerprint executes the handler.
C16_Witness ==
    \E i, j \in Inv :
        /\ j < i
        /\ inv[j].how = "hit"
        /\ inv[j].cleared
        /\ inv[i].key = inv[j].key
        /\ inv[i].read
        /\ inv[i].runs = 1

(***************************************************************************)
(* C17: clear_cache leaves the cache empty, and at any time every entry in *)
(* the cache was stored after the latest clear_cache, by the put of a call *)
(* whose handler returned the stored value (a call that may have been in   *)
(* flight when clear_cache ran).                                           *)
(***************************************************************************)
C17_ClearIsPointInTimeWipe ==
    [][ /\ ClearCache => \A k \in CacheKeys : cache'[k] = NoneV
        /\ \A k \in CacheKeys :
              cache'[k] # NoneV
                => LET w == cache'[k][1].by
                   IN  /\ inv'[w].how = "returned"
                       /\ inv'[w].wrote
                       /\ ~inv'[w].cleared
                       /\ inv'[w].key = Some(k)
                       /\ inv'[w].out.value = cache'[k][1].value ]_vars

\* The entry in the cache is the put of a call that was in flight when
\* clear_cache ran: a call that arrived after it had returned before the
\* clear.
C17_Witness ==
    \E w, j \in Inv :
        /\ w < j
        /\ Returned(j)
        /\ inv[j].cleared
        /\ inv[j].key = inv[w].key
        /\ inv[w].how = "returned"
        /\ ~inv[w].cleared
        /\ cache[KeyOf(w)] # NoneV
        /\ cache[KeyOf(w)][1].by = w

(***************************************************************************)
(* C18: when the handler of a call (registered tool, valid arguments,      *)
(* cache miss) returns value v, within the timeout if there is one, the    *)
(* call returns v; if the tool is cache-enabled the cache then maps the    *)
(* call's fingerprint to v, and otherwise the cache is left as it was.     *)
(***************************************************************************)
C18_HandlerValueReturnedAndCached ==
    [][ \A i \in Inv, v \in Values :
          HandlerReturns(i, v)
            => LET tool == inv[i].tool[1]
               IN  /\ inv'[i].pc = "done"
                   /\ inv'[i].out.type = "return"
                   /\ inv'[i].out.value = v
                   /\ inv'[i].runs = 1
                   /\ tool.metadata.cache_enabled
                        => /\ cache'[get_cache_key(tool, inv[i].kwargs)]
                                # NoneV
                           /\ cache'[get_cache_key(tool, inv[i].kwargs)][1]
                                .value = v
                   /\ ~tool.metadata.cache_enabled => cache' = cache ]_vars

\* A call with arguments, of a cache-enabled tool with a timeout, returned
\* its handler's value, which is now cached under its fingerprint.
C18_Witness ==
    \E i \in Inv :
        /\ inv[i].how = "returned"
        /\ inv[i].kwargs # << >>
        /\ HasTimeout(inv[i].tool[1])
        /\ CacheEnabled(i)
        /\ cache[KeyOf(i)] # NoneV
        /\ cache[KeyOf(i)][1].by = i
        /\ inv[i].out = Return(cache[KeyOf(i)][1].value)

(***************************************************************************)
(* Vocabulary of the correlation properties.                               *)
(***************************************************************************)
\* The envelope has an id and a method.
WellFormed(message) ==
    message.obj /\ message.id # NoneV /\ message.method # NoneV

\* Request r reached execute_tool and the call returned a value.
ToolSucceeded(r) == reqs[r].call # 0 /\ Returned(reqs[r].call)

\* C19: on POST /execute and on /ws, every response to a request with a
\* well-formed envelope carries that request's id; a tools/call whose call
\* returned is answered, with the call's value as result and a null error.
C19_ResponseCarriesRequestId ==
    \A r \in Requests :
        /\ (reqs[r].resp # NoneV /\ WellFormed(reqs[r].msg))
              => reqs[r].resp[1].id = reqs[r].msg.id[1]
        /\ ToolSucceeded(r)
              => /\ reqs[r].resp # NoneV
                 /\ reqs[r].resp[1].result
                      = Some(inv[reqs[r].call].out.value)
                 /\ reqs[r].resp[1].error = NoneV

\* Two requests with different ids, one per channel, whose calls both ran
\* their handler: each is answered under its own id, with different values.
C19_Witness ==
    \E r, q \in Requests :
        /\ r < q
        /\ reqs[r].chan = "http" /\ reqs[q].chan # "http"
        /\ reqs[r].msg.id # reqs[q].msg.id
        /\ ToolSucceeded(r) /\ ToolSucceeded(q)
        /\ inv[reqs[r].call].how = "returned"
        /\ inv[reqs[q].call].how = "returned"
        /\ reqs[r].resp[1].id = reqs[r].msg.id[1]
        /\ reqs[q].resp[1].id = reqs[q].msg.id[1]
        /\ reqs[r].resp[1].result # reqs[q].resp[1].result
        /\ reqs[q].at = "sent"

\* C20: a /ws request with id and method whose method is neither tools/list
\* nor tools/call gets a response with its id, a null result and an error
\* of code -32601, and no tool is executed for it.
C20_UnknownMethodIs32601 ==
    \A r \in Requests :
        ( /\ reqs[r].chan # "http"
          /\ WellFormed(reqs[r].msg)
          /\ reqs[r].msg.method[1] \notin { "tools/list", "tools/call" } )
          => /\ reqs[r].call = 0
             /\ reqs[r].at \in { "sending", "sent", "unsent" }
             /\ reqs[r].resp # NoneV
             /\ reqs[r].resp[1].id = reqs[r].msg.id[1]
             /\ reqs[r].resp[1].result = NoneV
             /\ reqs[r].resp[1].error # NoneV
             /\ reqs[r].resp[1].error[1].code = -32601

\* A "ping" request answered with -32601 and sent, no call made since the
\* server started.
C20_Witness ==
    \E r \in Requests :
        /\ reqs[r].chan # "http"
        /\ reqs[r].msg.method = Some("ping")
        /\ reqs[r].at = "sent"
        /\ reqs[r].resp[1].error[1].code = -32601
        /\ reqs[r].resp[1].id = "8"
        /\ started = 0

(***************************************************************************)
(* Cache keys.                                                             *)
(***************************************************************************)
\* The items of a dict, whatever their insertion order.
Items(kwargs) == { kwargs[n] : n \in 1 .. Len(kwargs) }

KeysComputed == fp.ka # NoneV /\ fp.kb # NoneV

SameNameVersion ==
    /\ fp.a.tool.metadata.name = fp.b.tool.metadata.name
    /\ fp.a.tool.metadata.version = fp.b.tool.metadata.version

\* C21: for one tool name and version, two argument dicts holding the
\* same key/value pairs, in whatever insertion order, get the same cache
\* key.
C21_KeyIgnoresInsertionOrder ==
    KeysComputed /\ SameNameVersion /\ Items(fp.a.kwargs) = Items(fp.b.kwargs)
        => fp.ka = fp.kb

\* Two keys computed for {query: [1, 2], x: 1} and {x: 1, query: [1, 2]}.
C21_Witness ==
    /\ KeysComputed
    /\ fp.a.tool = EchoTool
    /\ fp.b.tool = EchoTool
    /\ fp.a.kwargs = << << "query", PyList(<< 1, 2 >>) >>, << "x", PyInt(1) >> >>
    /\ fp.b.kwargs = << << "x", PyInt(1) >>, << "query", PyList(<< 1, 2 >>) >> >>
    /\ fp.ka = fp.kb

\* C22: two get_cache_key calls that differ in the tool name, the version,
\* an argument key or an argument value get different cache keys.
C22_KeyTellsInputsApart ==
    KeysComputed
    /\ (~SameNameVersion \/ Items(fp.a.kwargs) # Items(fp.b.kwargs))
        => fp.ka # fp.kb

(***************************************************************************)
(* Concurrency of unrelated calls.                                         *)
(***************************************************************************)
Running(i) == inv[i].pc = "running"

\* C23: no lock serialises unrelated calls.  While a call is suspended in
\* its handler (or in wait_for), execute_tool of any other name can be
\* entered, it reaches its own handler when the name is registered, the
\* arguments are valid and the cache has no entry, and any other suspended
\* call can return.
C23_NoGlobalLock ==
    \A i \in Inv :
        Running(i) =>
            /\ \A n \in ToolsNames \ { inv[i].name }, a \in ToolsArgs :
                  started < MaxCalls =>
                      /\ ENABLED (ExecuteTool(n, a) /\ Direct)
                      /\ get_tool(n) # NoneV
                         /\ MissingField(get_tool(n)[1], a) = NoneV
                         /\ CacheHit(get_tool(n)[1], a) = NoneV
                             => execute_tool_begin(n, a).pc = "running"
            /\ \A j \in Inv \ { i }, v \in Values :
                  Running(j) => ENABLED (HandlerReturns(j, v) /\ Direct)

\* Call 1 (echo) is still suspended in its handler; call 2 (raw), which
\* arrived after it, has run its handler and returned.
C23_Witness ==
    /\ Running(1)
    /\ inv[1].name = "echo"
    /\ inv[2].name = "raw"
    /\ inv[2].runs = 1
    /\ inv[2].how = "returned"
    /\ Returned(2)

(***************************************************************************)
(* Listings.                                                               *)
(***************************************************************************)
\* C24: a list returned by list_tools (or by GET /tools) holds exactly the
\* names registered when the call was made, each once, and still holds
\* them after any later register and unregister call.
C24_ListIsSnapshot ==
    \A n \in 1 .. Len(lists) :
        /\ Range(Contents(lists[n].got)) = NamesOf(lists[n].at)
        /\ Len(Contents(lists[n].got)) = Cardinality(NamesOf(lists[n].at))

\* A list of two names returned by list_tools, after which one of them was
\* unregistered; and a list returned before a name was registered.
C24_Witness ==
    /\ Len(lists) = 2
    /\ lists[1].via = "list_tools"
    /\ Len(lists[1].got.names) = 2
    /\ \E m \in Range(lists[1].got.names) : tools[m] = NoneV
    /\ \E m \in Names : tools[m] # NoneV /\ m \notin Range(lists[2].got.names)

(***************************************************************************)
(* Timeouts, cache switch, retries.                                        *)
(***************************************************************************)
\* C25: a call fails with ToolTimeoutError only if its tool has a timeout
\* configured and the wait for the handler ran out; a tool without a
\* timeout never fails with it, whatever its handler raises.
C25_TimeoutErrorOnlyFromTimeout ==
    \A i \in Inv :
        inv[i].pc = "done" /\ inv[i].out.type = "ToolTimeoutError" =>
            /\ inv[i].tool[1].metadata.timeout # NoneV
            /\ inv[i].how = "timed_out"

(***************************************************************************)
(* Configuration.                                                          *)
(***************************************************************************)
\* C26: a configuration constructed with no arguments has host
\* "localhost", port 8000 and debug false.
C26_DefaultConfig ==
    config.via = "MCPConfig" /\ config.given = NoArgs =>
        /\ config.obj[1].host = "localhost"
        /\ config.obj[1].port = 8000
        /\ config.obj[1].debug = FALSE

\* The call found a tool that has caching switched off.
CacheDisabled(i) == Found(i) /\ ~inv[i].tool[1].metadata.cache_enabled

\* The call went past lookup and validation.
Validated(i) ==
    Found(i) /\ MissingField(inv[i].tool[1], inv[i].kwargs) = NoneV

\* C27: for a tool with cache_enabled = False, every call that passes
\* lookup and validation executes the handler, no call computes a key,
\* reads the cache or stores to it, and the cache holds no entry under a
\* key of the tool.
C27_CacheDisabledBypassesCache ==
    \A i \in Inv :
        CacheDisabled(i) =>
            /\ Validated(i) => inv[i].runs = 1 /\ inv[i].how # "hit"
            /\ inv[i].key = NoneV
            /\ ~inv[i].read
            /\ ~inv[i].wrote
            /\ \A k \in CacheKeys : cache[k] # NoneV => cache[k][1].by # i
            /\ \A a \in ArgDicts :
                  cache[get_cache_key(inv[i].tool[1], a)] = NoneV

\* Two calls of the raw tool with the same arguments have both run the
\* handler and returned.
C27_Witness ==
    /\ CacheDisabled(1) /\ Returned(1) /\ inv[1].runs = 1
    /\ CacheDisabled(2) /\ Returned(2) /\ inv[2].runs = 1
    /\ inv[1].kwargs = inv[2].kwargs
    /\ inv[1].name = inv[2].name

\* C28: a call executes the handler at most once, whatever retry_attempts
\* the descriptor has and whatever the host's configuration says: after a
\* handler failure or a timeout the call is over, with an error, and the
\* handler ran once.
C28_HandlerRunsAtMostOnce ==
    \A i \in Inv :
        /\ inv[i].runs <= 1
        /\ Running(i) => inv[i].runs = 1
        /\ inv[i].how \in { "raised", "timed_out" } =>
              /\ inv[i].pc = "done"
              /\ inv[i].runs = 1
              /\ inv[i].out.type \in { "ToolError", "ToolTimeoutError" }

\* Under the default configuration (tool_retry_attempts = 3) and
\* descriptors with retry_attempts = 3, one call ended by its handler's
\* failure and one by its timeout, each after one execution.
C28_Witness ==
    /\ config.obj[1].tool_retry_attempts = 3
    /\ Found(1)
    /\ inv[1].tool[1].metadata.retry_attempts = 3
    /\ inv[1].how = "raised" /\ inv[1].runs = 1 /\ inv[1].pc = "done"
    /\ inv[1].out.type = "ToolError"
    /\ inv[2].how = "timed_out" /\ inv[2].runs = 1 /\ inv[2].pc = "done"
    /\ inv[2].out.type = "ToolTimeoutError"

\* The entry under key k was stored by a call that found a tool with
\* caching on, executed its handler once and returned the stored value,
\* and k is the key of that tool's name and version and the call's
\* arguments.
EntryFromSuccess(c, k) ==
    LET by == c[k][1].by
    IN  /\ inv[by].how = "returned"
        /\ inv[by].runs = 1
        /\ inv[by].pc = "done"
        /\ inv[by].out = Return(c[k][1].value)
        /\ inv[by].tool[1].metadata.cache_enabled
        /\ k = get_cache_key(inv[by].tool[1], inv[by].kwargs)
        /\ k[2] = inv[by].tool[1].metadata.name
        /\ k[3] = inv[by].tool[1].metadata.version

\* C29: every cache entry comes from a successful handler execution of a
\* cache-enabled tool for the name, version and arguments of its key, and
\* a step that removes an entry is a clear_cache call: anything else only
\* adds entries, whatever cache_ttl and cache_max_size the host has
\* configured.
C29_EntriesOnlyFromSuccessAndOnlyCleared ==
    [][ /\ \A k \in CacheKeys : cache[k] # NoneV => EntryFromSuccess(cache, k)
        /\ \A k \in CacheKeys :
              cache'[k] # NoneV =>
                  /\ inv'[cache'[k][1].by].how = "returned"
                  /\ inv'[cache'[k][1].by].tool[1].metadata.cache_enabled
                  /\ k = get_cache_key(inv'[cache'[k][1].by].tool[1],
                                       inv'[cache'[k][1].by].kwargs)
        /\ (\E k \in CacheKeys : cache[k] # NoneV /\ cache'[k] = NoneV)
              => ClearCache ]_vars

\* With cache_max_size = 1 and cache_ttl = 1 configured, the cache holds
\* two entries, put by two calls.
C29_Witness ==
    /\ config.obj[1].cache_max_size = 1
    /\ config.obj[1].cache_ttl = 1
    /\ \E k1 \in CacheKeys, k2 \in CacheKeys :
          /\ k1 # k2
          /\ cache[k1] # NoneV /\ cache[k2] # NoneV
          /\ cache[k1][1].by = 1 /\ cache[k2][1].by = 2

(***************************************************************************)
(* Broadcast.                                                              *)
(***************************************************************************)
\* How many times broadcast called send_text on w.
Attempts(w) ==
    Cardinality({ n \in 1 .. Len(bcast.sent) : bcast.sent[n] = w })

\* C30: when broadcast returns, every connection that was in
\* active_connections from its call to its return got exactly one
\* send_text, whatever connected, disconnected or failed meanwhile, and no
\* connection whose send failed is in active_connections.
C30_BroadcastReachesAll ==
    bcast.pc = "done" =>
        /\ \A w \in bcast.stayed : Attempts(w) = 1
        /\ \A n \in 1 .. Len(bcast.disconnected) :
              bcast.disconnected[n] \notin Range(active_connections)

(***************************************************************************)
(* Calls in flight while the registry changes.                             *)
(***************************************************************************)
\* The entries of cache c that differ from those of cache d.
Changed(c, d) == { k \in CacheKeys : c[k] # d[k] }

\* C31: a call keeps the tool of its lookup to its end.  No step changes
\* the tool a call holds; when the handler of a call returns, the call
\* returns that value, and the cache changes exactly under the key of the
\* tool the call looked up (not at all if that tool has caching off),
\* whatever is registered under the name by then.
C31_CallKeepsItsTool ==
    [][ \A i \in Inv :
          /\ inv[i].pc # "idle" => inv'[i].tool = inv[i].tool
          /\ \A v \in Values :
                HandlerReturns(i, v) =>
                    /\ inv'[i].out = Return(v)
                    /\ Changed(cache', cache) \subseteq
                          { get_cache_key(inv[i].tool[1], inv[i].kwargs) }
                    /\ inv[i].tool[1].metadata.cache_enabled =>
                          cache'[get_cache_key(inv[i].tool[1], inv[i].kwargs)]
                              = Some([ value |-> v, by |-> i ])
                    /\ ~inv[i].tool[1].metadata.cache_enabled =>
                          cache' = cache ]_vars

\* A call that looked up version 1.0.0 of echo has returned and its result
\* is cached under that version's key, not under the key of version 2.0.0,
\* which is registered under the name.
C31_Witness ==
    /\ Returned(1)
    /\ inv[1].tool = Some(EchoTool)
    /\ tools["echo"] = Some(EchoToolV2)
    /\ cache[get_cache_key(EchoTool, inv[1].kwargs)]
          = Some([ value |-> inv[1].out.value, by |-> 1 ])
    /\ cache[get_cache_key(EchoToolV2, inv[1].kwargs)] = NoneV
    /\ inv[1].how = "returned"

\* The call arriving in this step.
Arriving == started'

\* The arriving call found tool t, and the cache holds, under the key of
\* t's name and version and the call's arguments, the result of a call
\* that had looked up another tool: the one t replaced.
FindsReplacedEntry(t) ==
    /\ started' = started + 1
    /\ inv'[Arriving].tool = Some(t)
    /\ cache[get_cache_key(t, inv'[Arriving].kwargs)] # NoneV
    /\ LET by == cache[get_cache_key(t, inv'[Arriving].kwargs)][1].by
       IN  /\ inv[by].tool # Some(t)
           /\ inv[by].tool[1].metadata.name = t.metadata.name
           /\ inv[by].tool[1].metadata.version = t.metadata.version

\* The arriving call returns the cached value, which the replaced tool's
\* handler returned, and runs no handler.
AnsweredFromReplaced(t) ==
    LET entry == cache[get_cache_key(t, inv'[Arriving].kwargs)][1]
    IN  /\ inv'[Arriving].pc = "done"
        /\ inv'[Arriving].runs = 0
        /\ inv'[Arriving].out = Return(entry.value)
        /\ inv[entry.by].out = Return(entry.value)
        /\ inv[entry.by].how = "returned"

\* A register or unregister step leaves the cache as it is.
RegistryStepsKeepCache == tools' # tools => cache' = cache

\* C32 as stated: register and unregister leave the cache unchanged, and a
\* call that finds a tool whose key holds a replaced tool's result
\* returns that result without executing the new handler.
C32_ReplacedToolAnswersFromCache ==
    [][ /\ RegistryStepsKeepCache
        /\ \A t \in Tools : FindsReplacedEntry(t) => AnsweredFromReplaced(t)
      ]_vars

\* C32, amended: the same, for a replacing tool that has caching enabled
\* and whose required fields the arguments contain.
C32_ReplacedToolAnswersWhenValidAndCaching ==
    [][ /\ RegistryStepsKeepCache
        /\ \A t \in Tools :
              /\ FindsReplacedEntry(t)
              /\ t.metadata.cache_enabled
              /\ MissingField(t, inv'[Arriving].kwargs) = NoneV
              => AnsweredFromReplaced(t) ]_vars

\* Call 1 ran the first echo handler and its result was cached; the name
\* was then registered with the second echo tool; call 2, with the same
\* arguments, found the second tool and returned call 1's value without
\* running a handler.
C32_Witness ==
    /\ Returned(1) /\ inv[1].tool = Some(EchoTool) /\ inv[1].runs = 1
    /\ tools["echo"] = Some(EchoToolB)
    /\ Returned(2) /\ inv[2].tool = Some(EchoToolB)
    /\ inv[2].kwargs = inv[1].kwargs
    /\ inv[2].runs = 0
    /\ inv[2].how = "hit"
    /\ inv[2].out = inv[1].out

(***************************************************************************)
(* The /ws connections.                                                    *)
(***************************************************************************)
\* The requests read from WebSocket w, in arrival order.
ReadFrom(w) == { r \in Requests : reqs[r].chan = w }

\* The request is over for its connection: its response was sent, or the
\* send failed.
Finished(r) == reqs[r].at \in { "sent", "unsent" }

\* C33: on one WebSocket the requests are handled one at a time, in arrival
\* order: when a request has been read, every earlier request of the
\* connection has had its response sent (or the send has failed), at most
\* one request of the connection is being processed or sent, and at most
\* one execute_tool call of the connection is suspended in a handler.
C33_OneRequestAtATimePerSocket ==
    \A w \in Sockets :
        /\ \A r1 \in ReadFrom(w), r2 \in ReadFrom(w) :
              r1 < r2 => Finished(r1)
        /\ Cardinality({ r \in ReadFrom(w) : ~Finished(r)
                                             /\ reqs[r].at # "dropped" }) <= 1
        /\ Cardinality({ r \in ReadFrom(w) :
                           /\ reqs[r].call # 0
                           /\ inv[reqs[r].call].pc = "running" }) <= 1
        /\ \A r \in ReadFrom(w) :
              reqs[r].at \in { "processing", "sending" } => socks[w].cur = r

\* Two tools/call requests on ws1: the response to the first (id 7) was
\* sent, then the second (id 8) was read and its call is suspended in the
\* handler.
C33_Witness ==
    /\ Len(reqs) = 2
    /\ reqs[1].chan = "ws1" /\ reqs[2].chan = "ws1"
    /\ reqs[1].call # 0 /\ reqs[2].call # 0
    /\ reqs[1].at = "sent"
    /\ reqs[1].resp[1].id = "7"
    /\ reqs[2].msg.id = Some("8")
    /\ inv[reqs[2].call].pc = "running"

\* How many times w is in active_connections.
Listed(w) ==
    Cardinality({ n \in 1 .. Len(active_connections) :
                    active_connections[n] = w })

\* C34: a WebSocket is in active_connections (once) only while its endpoint
\* is in its loop after connect: never before connect, never after the
\* endpoint ended, whether by a client disconnect or another error; a
\* socket whose send_personal_message failed is out of the list; and
\* disconnect of a socket that is not in the list leaves the list as it is.
C34_ListedOnlyWhileLooping ==
    \A w \in DOMAIN socks :
        /\ Listed(w) <= 1
        /\ socks[w].st \in { "unconnected", "closed" } => Listed(w) = 0
        /\ socks[w].gone => Listed(w) = 0
        /\ Listed(w) = 1 => socks[w].st \in { "receiving", "processing",
                                              "sending" }
        /\ socks[w].st \in { "receiving", "processing", "sending" }
              /\ ~socks[w].gone => Listed(w) = 1
        /\ Listed(w) = 0 => disconnect(w) = active_connections

\* The send of a response to ws1 failed, so ws1 left the list; its endpoint
\* then ended on the failing receive, where disconnect found it absent;
\* ws2, which has had a response sent, is still in the list.
C34_Witness ==
    /\ socks["ws1"].gone
    /\ socks["ws1"].st = "closed"
    /\ socks["ws2"].st = "receiving"
    /\ active_connections = << "ws2" >>
    /\ \E r \in Requests : reqs[r].chan = "ws1" /\ reqs[r].at = "unsent"
    /\ \E r \in Requests : reqs[r].chan = "ws2" /\ reqs[r].at = "sent"

=============================================================================
